---- MODULE Spec2Model ----
(***************************************************************************)
(* State-machine model of the whatsmeup chat backend                       *)
(* (backend/chat: models.py, views.py, consumers.py; backend/accounts).    *)
(*                                                                         *)
(* Database rows are modelled as records: messages and notifications are   *)
(* sequences whose index is the row's primary key.  Conversations and      *)
(* users exist from the start; their participant sets never change (no     *)
(* modelled handler edits them).  The channel layer is the relation        *)
(* `groups` between topics and connections.  `response`, `sent` and        *)
(* `delivered` hold what the last handler returned, passed to group_send   *)
(* and pushed to each socket.                                              *)
(*                                                                         *)
(* Attachments are modelled for MessageViewSet.create only.  Conversation   *)
(* rows are added by start_conversation alone; `calls` holds its requests   *)
(* in flight, `wsin`, `running` and `trace` the receive() calls of the chat *)
(* sockets taken await by await.                                           *)
(* Not modelled: pagination, search, the                                   *)
(* generic ModelViewSet update/destroy routes, and the two generic views   *)
(* MessageListView / MessageCreateView, which chat/urls.py routes under a  *)
(* <uuid:...> converter although primary keys are integers.                *)
(***************************************************************************)
EXTENDS Integers, Sequences, FiniteSets, TLC

\* ------------------------------------------------------------------ bounds
\* Message rows in the REST specification / in the WebSocket specification /
\* in the thread specification; live connections.
MaxMessages == 3
MaxChatMessages == 1
MaxThreadMessages == 3
MaxReadMessages == 1
MaxConns == 3
MaxChatConns == 2
MaxEvents == 2
MaxNotifyMessages == 2
MaxFanoutMessages == 3
MaxNewConvs == 2
MaxUnreadMessages == 2
MaxFrames == 2
MaxAttachMessages == 2
MaxReplyMessages == 3

\* ---------------------------------------------------------------- entities
\* None for a nullable ForeignKey to Message (primary keys start at 1).
Null == 0
\* NULL for the nullable DateTimeField User.last_seen.
NullTime == -1
\* None for a nullable ForeignKey to User / Conversation.
NoUser == "none"

Users == {"A", "B", "E"}
\* A user id that names no User row (taken from a URL or a JSON payload).
GhostUser == "ghost"
UserOrder == <<"A", "B", "E">>

ConvIds == {"C", "D", "G"}
\* Request values for a conversation id: absent, naming nothing, or real.
ConvMissing == "missing"
ConvNoSuch == "nosuch"
ConvInputs == ConvIds \cup {ConvMissing, ConvNoSuch}

Contents == {"hi", "yo"}

\* An empty FileField / ImageField and a NULL attachment_type.
NoFile == <<>>
NoType == "none"
\* Names of uploaded files, with the extension set_attachment_type looks at.
Files == {<<"a", "png">>, <<"b", "pdf">>, <<"c", "bin">>}

InitParticipants == [c \in ConvIds |->
    CASE c = "C" -> {"A", "B"}
      [] c = "D" -> {"B", "E"}
      [] OTHER   -> {"A", "B", "E"}]

Conns == 1..MaxConns
Topics == ({"chat"} \X ConvIds) \cup ({"user"} \X (Users \cup {GhostUser})) \cup {<<"presence", "">>}

VARIABLES
    conversations,   \* ConvIds -> [participants, is_group, updated_at]
    messages,        \* Seq of Message rows
    notifications,   \* Seq of Notification rows
    users,           \* Users -> [is_online, last_seen]
    clock,           \* timezone.now(); advanced by every message insert
    conns,           \* Conns -> [kind, state, conversation_id, user_id]
    groups,          \* channel layer: set of <<topic, connection>>
    response,        \* status of the last handler
    sent,            \* group_send calls of the last handler
    delivered,       \* Conns -> frames the last handler's events put on each socket
                     \* once the channel layer has carried them
    procs,           \* in-flight mark-read calls (interleaved specification)
    log,             \* the group_send calls so far, in the order they were made
    queue,           \* channel layer: Conns -> events waiting for the consumer
    inbox,           \* Conns -> frames written to the socket so far
    calls,           \* Users -> the user's start_conversation request in flight
    wsin,            \* Conns -> inbound frames the socket has taken, oldest first
    running,         \* Conns -> the receive() calls that have begun and not ended
    trace            \* what the receive() calls have done so far, in order

vars == <<conversations, messages, notifications, users, clock, conns, groups,
          response, sent, delivered, procs, log, queue, inbox,
          calls, wsin, running, trace>>

dbVars == <<conversations, messages, notifications, users, clock>>

chanVars == <<log, queue, inbox>>

taskVars == <<calls, wsin, running, trace>>

\* ------------------------------------------------------------------ helpers
MsgIds == 1..Len(messages)
\* Request values for a message id: 0 is "not given", Len + 1 names nothing.
MsgIdInputs == 0..(Len(messages) + 1)
\* Request values for reply_to (a quote reference with no behaviour of its own).
ReplyToInputs == {Null, 1, Len(messages) + 1}

participants(c) == conversations[c].participants

\* A set of users as the sequence a queryset yields them in (by id).
InOrder(S) == SelectSeq(UserOrder, LAMBDA p : p \in S)

\* Message.objects.create defaults (models.py fields).
NewMessage(id, conv, sender, content, reply_to, parent, now) ==
    [id |-> id, conversation |-> conv, sender |-> sender, content |-> content,
     timestamp |-> now, is_read |-> FALSE, read_by |-> {},
     reply_to |-> reply_to, parent_message |-> parent,
     forwarded_from |-> Null, forwarded_by |-> NoUser, is_forwarded |-> FALSE,
     attachment |-> NoFile, attachment_type |-> NoType,
     attachment_thumbnail |-> NoFile]

\* conversation.updated_at = timezone.now(); conversation.save()
TouchConversation(c, now) ==
    [conversations EXCEPT ![c].updated_at = now]

\* MessageViewSet.get_queryset / get_object: the message must lie in a
\* conversation of the requesting user.
VisibleMessage(u, pk) ==
    /\ pk \in MsgIds
    /\ u \in participants(messages[pk].conversation)

\* Conversation.objects.get(id=..., participants=request.user)
OwnConversation(u, c) ==
    /\ c \in ConvIds
    /\ u \in participants(c)

\* Mutant: the fanout forgets to exclude the actor.
FanoutRecipients_with_actor(c, actor) == participants(c)

\* conversation.participants.exclude(id=request.user.id)
FanoutRecipients(c, actor) == participants(c) \ {actor}

\* ------------------------------------------------------------ Message store
\* Mutant: no membership guard, and the all-read test runs on read_by as it
\* was before the add.
mark_as_read_stale_check(msgs, id, user) ==
    LET m == msgs[id]
        others == participants(m.conversation) \ {m.sender}
    IN [msgs EXCEPT ![id].read_by = @ \cup {user},
                    ![id].is_read = IF others \subseteq m.read_by THEN TRUE ELSE @]

\* Message.mark_as_read run without interruption.
mark_as_read(msgs, id, user) ==
    LET m == msgs[id] IN
    IF user \in m.read_by
    THEN msgs
    ELSE LET rb == m.read_by \cup {user}
             others == participants(m.conversation) \ {m.sender}
         IN [msgs EXCEPT ![id].read_by = rb,
                         ![id].is_read = IF others \subseteq rb THEN TRUE ELSE @]

\* Mutant: the copy takes over the origin's read state.
forward_to_conversation_keeping_read_state(msgs, id, user, conv, now) ==
    Append(msgs,
        [NewMessage(Len(msgs) + 1, conv, user, msgs[id].content, Null, Null, now)
            EXCEPT !.forwarded_from = id, !.forwarded_by = user, !.is_forwarded = TRUE,
                   !.is_read = msgs[id].is_read, !.read_by = msgs[id].read_by,
                   !.attachment = msgs[id].attachment,
                   !.attachment_type = msgs[id].attachment_type])

\* Mutant: the copy keeps the origin's thread and quote references.
forward_to_conversation_keeping_refs(msgs, id, user, conv, now) ==
    Append(msgs,
        [NewMessage(Len(msgs) + 1, conv, user, msgs[id].content,
                    msgs[id].reply_to, msgs[id].parent_message, now)
            EXCEPT !.forwarded_from = id, !.forwarded_by = user, !.is_forwarded = TRUE,
                   !.attachment = msgs[id].attachment,
                   !.attachment_type = msgs[id].attachment_type])

\* Message.forward_to_conversation: one new row, the origin untouched.
forward_to_conversation(msgs, id, user, conv, now) ==
    Append(msgs,
        [NewMessage(Len(msgs) + 1, conv, user, msgs[id].content, Null, Null, now)
            EXCEPT !.forwarded_from = id, !.forwarded_by = user, !.is_forwarded = TRUE,
                   !.attachment = msgs[id].attachment,
                   !.attachment_type = msgs[id].attachment_type])

\* Mutant: the fanout types every notification as a plain message.
CreateNotifications_plain_type(c, actor, msgId, parent) ==
    LET rs == InOrder(FanoutRecipients(c, actor)) IN
    [i \in 1..Len(rs) |->
        [recipient |-> rs[i], sender |-> actor,
         notification_type |-> "message",
         is_read |-> FALSE,
         related_message |-> msgId, related_conversation |-> c,
         data |-> [conversation_id |-> c, message_id |-> msgId,
                   is_thread_reply |-> parent # Null,
                   parent_message_id |-> parent,
                   original_message_id |-> Null,
                   original_conversation_id |-> NoUser]]]

\* The Notification rows MessageViewSet.create inserts for one message.
CreateNotifications(c, actor, msgId, parent) ==
    LET rs == InOrder(FanoutRecipients(c, actor)) IN
    [i \in 1..Len(rs) |->
        [recipient |-> rs[i], sender |-> actor,
         notification_type |-> IF parent # Null THEN "thread_reply" ELSE "message",
         is_read |-> FALSE,
         related_message |-> msgId, related_conversation |-> c,
         data |-> [conversation_id |-> c, message_id |-> msgId,
                   is_thread_reply |-> parent # Null,
                   parent_message_id |-> parent,
                   original_message_id |-> Null,
                   original_conversation_id |-> NoUser]]]

\* The Notification rows MessageViewSet.forward inserts.
ForwardNotifications(c, actor, msgId, origId, origConv) ==
    LET rs == InOrder(FanoutRecipients(c, actor)) IN
    [i \in 1..Len(rs) |->
        [recipient |-> rs[i], sender |-> actor,
         notification_type |-> "forwarded_message",
         is_read |-> FALSE,
         related_message |-> msgId, related_conversation |-> c,
         data |-> [conversation_id |-> c, message_id |-> msgId,
                   is_thread_reply |-> FALSE,
                   parent_message_id |-> Null,
                   original_message_id |-> origId,
                   original_conversation_id |-> origConv]]]

NoDeliveries == [c \in Conns |-> <<>>]

\* What a handler answers: the HTTP status and the error text of the body
\* ("" on success).  Consumers answer with status 0.
Resp(status, error) == [status |-> status, error |-> error]
\* get_object() / get_object_or_404 raising Http404.
NotFound == Resp(404, "Not found.")

\* An exception that leaves the view: the framework answers 500.
ServerError == Resp(500, "exception")

\* A handler that calls no group_send and writes to no socket.
NoBroadcast ==
    /\ sent' = <<>>
    /\ delivered' = NoDeliveries

\* The parent_message MessageViewSet.create stores for a requested parent row.
StoredParent(parentId) == parentId

\* Mutant: create does not compare the parent's conversation.
ParentElsewhere_unchecked(parent_message_id, conversation_id) == FALSE

\* `parent_message.conversation.id != conversation.id` for a parent that exists.
ParentElsewhere(parent_message_id, conversation_id) ==
    /\ parent_message_id \in MsgIds
    /\ messages[parent_message_id].conversation # conversation_id

\* POST /messages/ : MessageViewSet.create
MessageViewSet_create(u, conversation_id, content, reply_to_id, parent_message_id) ==
    /\ NoBroadcast
    /\ UNCHANGED <<users, conns, groups, procs>>
    /\ IF conversation_id = ConvMissing
       THEN /\ response' = Resp(400, "Conversation ID is required")
            /\ UNCHANGED <<conversations, messages, notifications, clock>>
       ELSE IF ~OwnConversation(u, conversation_id)
       THEN /\ response' = Resp(404, "Conversation not found")
            /\ UNCHANGED <<conversations, messages, notifications, clock>>
       ELSE IF ParentElsewhere(parent_message_id, conversation_id)
       THEN /\ response' = Resp(400, "Parent message must be in the same conversation")
            /\ UNCHANGED <<conversations, messages, notifications, clock>>
       ELSE LET reply_to == IF reply_to_id \in MsgIds THEN reply_to_id ELSE Null
                parent == IF parent_message_id \in MsgIds
                          THEN StoredParent(parent_message_id) ELSE Null
                now == clock + 1
                id == Len(messages) + 1
            IN /\ clock' = now
               /\ messages' = Append(messages,
                      NewMessage(id, conversation_id, u, content, reply_to, parent, now))
               /\ conversations' = TouchConversation(conversation_id, now)
               /\ notifications' = notifications \o
                      CreateNotifications(conversation_id, u, id, parent)
               /\ response' = Resp(201, "")

\* POST /conversations/{id}/messages/create/ : MessageCreateView, reached with
\* the id written as a UUID.  The serializer validates first (parent_message
\* must name a row); perform_create looks the conversation up, bumps its
\* updated_at and calls serializer.save(sender=..., conversation=...), whose
\* create() passes sender twice to Message.objects.create: a TypeError, so
\* the view never stores a message.
MessageCreateView_post(u, conversation_id, parent_message_id) ==
    /\ NoBroadcast
    /\ UNCHANGED <<messages, notifications, users, clock, conns, groups, procs>>
    /\ IF parent_message_id # Null /\ parent_message_id \notin MsgIds
       THEN /\ response' = Resp(400, "Invalid pk")
            /\ UNCHANGED conversations
       ELSE IF ~OwnConversation(u, conversation_id)
       THEN /\ response' = NotFound
            /\ UNCHANGED conversations
       ELSE /\ conversations' = TouchConversation(conversation_id, clock)
            /\ response' = ServerError

\* Mutant: the target lookup drops the participants filter.
ForwardTargetFound_any_user(u, target) == target \in ConvIds

\* Conversation.objects.get(id=target, participants=request.user) in forward.
ForwardTargetFound(u, target) == OwnConversation(u, target)

\* What MessageViewSet.forward answers when the target lookup raises
\* Conversation.DoesNotExist.
ForwardTargetNotFound == Resp(404, "Target conversation not found")

\* POST /messages/{pk}/forward/ : MessageViewSet.forward
MessageViewSet_forward(u, pk, target) ==
    /\ NoBroadcast
    /\ UNCHANGED <<conversations, users, conns, groups, procs>>
    /\ IF ~VisibleMessage(u, pk)
       THEN /\ response' = NotFound
            /\ UNCHANGED <<messages, notifications, clock>>
       ELSE IF target = ConvMissing
       THEN /\ response' = Resp(400, "Target conversation ID is required")
            /\ UNCHANGED <<messages, notifications, clock>>
       ELSE IF ~ForwardTargetFound(u, target)
       THEN /\ response' = ForwardTargetNotFound
            /\ UNCHANGED <<messages, notifications, clock>>
       ELSE LET now == clock + 1
                id == Len(messages) + 1
            IN /\ clock' = now
               /\ messages' = forward_to_conversation(messages, pk, u, target, now)
               /\ notifications' = notifications \o
                      ForwardNotifications(target, u, id, pk, messages[pk].conversation)
               /\ response' = Resp(201, "")

\* The rows a fanout loop has inserted when Notification.objects.create raises
\* for the recipients in `failing`: the loop has no try/except, so it ends at
\* the first such recipient.
RECURSIVE InsertUntilFailure(_, _)
InsertUntilFailure(rows, failing) ==
    IF rows = <<>> \/ Head(rows).recipient \in failing THEN <<>>
    ELSE <<Head(rows)>> \o InsertUntilFailure(Tail(rows), failing)

\* MessageViewSet.create on a valid request while the notification insert
\* fails for the recipients in `failing`.  Every statement commits on its own
\* (Django's autocommit; the view opens no transaction), so what ran before
\* the exception stays.
MessageViewSet_create_failing(u, conversation_id, content, parent_message_id, failing) ==
    /\ OwnConversation(u, conversation_id)
    /\ parent_message_id \in MsgIds =>
           messages[parent_message_id].conversation = conversation_id
    /\ NoBroadcast
    /\ UNCHANGED <<users, conns, groups, procs>>
    /\ LET parent == IF parent_message_id \in MsgIds
                     THEN StoredParent(parent_message_id) ELSE Null
           now == clock + 1
           id == Len(messages) + 1
           rows == CreateNotifications(conversation_id, u, id, parent)
           done == InsertUntilFailure(rows, failing)
       IN /\ clock' = now
          /\ messages' = Append(messages,
                 NewMessage(id, conversation_id, u, content, Null, parent, now))
          /\ conversations' = TouchConversation(conversation_id, now)
          /\ notifications' = notifications \o done
          /\ response' = IF Len(done) = Len(rows) THEN Resp(201, "") ELSE ServerError

\* MessageViewSet.forward on a valid request while the notification insert
\* fails for the recipients in `failing`.
MessageViewSet_forward_failing(u, pk, target, failing) ==
    /\ VisibleMessage(u, pk)
    /\ ForwardTargetFound(u, target)
    /\ NoBroadcast
    /\ UNCHANGED <<conversations, users, conns, groups, procs>>
    /\ LET now == clock + 1
           id == Len(messages) + 1
           rows == ForwardNotifications(target, u, id, pk, messages[pk].conversation)
           done == InsertUntilFailure(rows, failing)
       IN /\ clock' = now
          /\ messages' = forward_to_conversation(messages, pk, u, target, now)
          /\ notifications' = notifications \o done
          /\ response' = IF Len(done) = Len(rows) THEN Resp(201, "") ELSE ServerError

\* Message.set_attachment_type: the type the file name's extension stands for.
set_attachment_type(name) ==
    CASE name[2] \in {"jpg", "jpeg", "png", "gif", "webp", "svg"} -> "image"
      [] name[2] \in {"mp3", "wav", "ogg", "m4a"} -> "audio"
      [] name[2] \in {"mp4", "webm", "mov", "avi", "mkv"} -> "video"
      [] name[2] \in {"pdf", "doc", "docx", "xls", "xlsx", "ppt", "pptx", "txt"} -> "document"
      [] OTHER -> "other"

\* message_attachment_path: where the FileField stores an uploaded file.
message_attachment_path(m, name) ==
    <<"chat_attachments", m.conversation, m.sender, m.timestamp, name>>

\* Mutant: generate_thumbnail without its try/except.
generate_thumbnail_unguarded(m, ok) ==
    [row |-> IF ok THEN [m EXCEPT !.attachment_thumbnail =
                                     <<"chat_thumbnails", "thumb", m.attachment>>]
             ELSE m,
     raised |-> ~ok]

\* Message.generate_thumbnail of an image attachment; ok says whether PIL can
\* open, resize and write the image.  The except clause swallows a failure.
generate_thumbnail(m, ok) ==
    [row |-> IF ok THEN [m EXCEPT !.attachment_thumbnail =
                                     <<"chat_thumbnails", "thumb", m.attachment>>]
             ELSE m,
     raised |-> FALSE]

\* Message.save of an instance whose attachment was just assigned: the type
\* is detected, an image gets its thumbnail, and super().save() stores the
\* row with the file under its upload path unless an exception came first.
Message_save(m, ok) ==
    LET typed == IF m.attachment # NoFile /\ m.attachment_type = NoType
                 THEN [m EXCEPT !.attachment_type = set_attachment_type(m.attachment)]
                 ELSE m
        thumb == IF /\ typed.attachment # NoFile
                    /\ typed.attachment_type = "image"
                    /\ typed.attachment_thumbnail = NoFile
                 THEN generate_thumbnail(typed, ok)
                 ELSE [row |-> typed, raised |-> FALSE]
    IN [row |-> [thumb.row EXCEPT
                    !.attachment = IF @ = NoFile THEN NoFile
                                   ELSE message_attachment_path(m, @)],
        raised |-> thumb.raised]

\* MessageViewSet.create with the multipart field `attachment` (NoFile when
\* the request has none): the row is inserted without the file, then
\* `message.attachment = attachment; message.save()`.
MessageViewSet_create_with_attachment(u, conversation_id, content, attachment, ok) ==
    /\ NoBroadcast
    /\ UNCHANGED <<users, conns, groups, procs>>
    /\ IF ~OwnConversation(u, conversation_id)
       THEN /\ response' = Resp(404, "Conversation not found")
            /\ UNCHANGED <<conversations, messages, notifications, clock>>
       ELSE LET now == clock + 1
                id == Len(messages) + 1
                created == NewMessage(id, conversation_id, u, content, Null, Null, now)
                saved == IF attachment = NoFile
                         THEN [row |-> created, raised |-> FALSE]
                         ELSE Message_save([created EXCEPT !.attachment = attachment], ok)
            IN /\ clock' = now
               /\ IF saved.raised
                  THEN /\ messages' = Append(messages, created)
                       /\ response' = ServerError
                       /\ UNCHANGED <<conversations, notifications>>
                  ELSE /\ messages' = Append(messages, saved.row)
                       /\ conversations' = TouchConversation(conversation_id, now)
                       /\ notifications' = notifications \o
                              CreateNotifications(conversation_id, u, id, Null)
                       /\ response' = Resp(201, "")

\* POST /messages/{pk}/mark_read/ : MessageViewSet.mark_read
MessageViewSet_mark_read(u, pk) ==
    /\ NoBroadcast
    /\ UNCHANGED <<conversations, notifications, users, clock, conns, groups, procs>>
    /\ IF ~VisibleMessage(u, pk)
       THEN /\ response' = NotFound
            /\ UNCHANGED messages
       ELSE /\ messages' = mark_as_read(messages, pk, u)
            /\ response' = Resp(200, "")

\* order_by('timestamp'): the ids of S by ascending timestamp.
RECURSIVE OrderByTimestamp(_, _)
OrderByTimestamp(msgs, S) ==
    IF S = {} THEN <<>>
    ELSE LET first == CHOOSE i \in S : \A j \in S :
                          \/ msgs[i].timestamp < msgs[j].timestamp
                          \/ (msgs[i].timestamp = msgs[j].timestamp /\ i <= j)
         IN <<first>> \o OrderByTimestamp(msgs, S \ {first})

\* Message.get_thread_messages: for a thread reply, its parent and the
\* parent's replies; for any other message, its replies.
get_thread_messages(msgs, id) ==
    LET parent == msgs[id].parent_message IN
    IF parent # Null
    THEN OrderByTimestamp(msgs, {i \in 1..Len(msgs) :
                                    i = parent \/ msgs[i].parent_message = parent})
    ELSE OrderByTimestamp(msgs, {i \in 1..Len(msgs) : msgs[i].parent_message = id})

\* The queryset of MessageViewSet.thread for the message the URL names.
ThreadQuery(msgs, pk) ==
    OrderByTimestamp(msgs, {i \in 1..Len(msgs) : i = pk \/ msgs[i].parent_message = pk})

\* A 200 answer whose body lists the rows `data` (by id).
RespData(data) == [status |-> 200, error |-> "", data |-> data]

\* GET /messages/{pk}/thread/ : MessageViewSet.thread
MessageViewSet_thread(u, pk) ==
    /\ NoBroadcast
    /\ UNCHANGED <<dbVars, conns, groups, procs>>
    /\ IF ~VisibleMessage(u, pk)
       THEN response' = NotFound
       ELSE response' = RespData(ThreadQuery(messages, pk))

\* mark_as_read applied to the rows ids[1], ids[2], ... in turn.
RECURSIVE MarkAll(_, _, _)
MarkAll(msgs, ids, user) ==
    IF ids = <<>> THEN msgs
    ELSE MarkAll(mark_as_read(msgs, Head(ids), user), Tail(ids), user)

\* The ids, ascending, of the rows of conversation c that the listing marks:
\* filter(conversation=c, is_read=False).exclude(sender=user)
UnreadFor(msgs, c, user) ==
    SelectSeq([i \in 1..Len(msgs) |-> i],
              LAMBDA i : /\ msgs[i].conversation = c
                         /\ ~msgs[i].is_read
                         /\ msgs[i].sender # user)

\* GET /conversations/{pk}/messages/ : ConversationViewSet.messages
ConversationViewSet_messages(u, pk) ==
    /\ NoBroadcast
    /\ UNCHANGED <<conversations, notifications, users, clock, conns, groups, procs>>
    /\ IF ~OwnConversation(u, pk)
       THEN /\ response' = NotFound
            /\ UNCHANGED messages
       ELSE /\ messages' = MarkAll(messages, UnreadFor(messages, pk, u), u)
            /\ response' = Resp(200, "")

\* Mutant: the count forgets to leave out the user's own messages.
get_unread_count_with_own(msgs, c, user) ==
    Len(SelectSeq(SelectSeq(msgs, LAMBDA m : m.conversation = c),
                  LAMBDA m : ~m.is_read))

\* Conversation.get_unread_count:
\* self.messages.filter(~Q(sender=user), is_read=False).count()
get_unread_count(msgs, c, user) ==
    Len(SelectSeq(SelectSeq(msgs, LAMBDA m : m.conversation = c),
                  LAMBDA m : m.sender # user /\ ~m.is_read))

\* GET /conversations/unread_count/ : ConversationViewSet.unread_count, the
\* counts above zero of the user's conversations.
ConversationViewSet_unread_count(u) ==
    /\ NoBroadcast
    /\ UNCHANGED <<dbVars, conns, groups, procs>>
    /\ LET own == {c \in ConvIds : u \in participants(c)}
           counted == {c \in own : get_unread_count(messages, c, u) > 0}
       IN response' = RespData([c \in counted |-> get_unread_count(messages, c, u)])

\* ------------------------------------------------------------ channel layer
\* Mutant: the room group is named without the conversation id.
ChatTopic_shared(conv) == <<"chat", "C">>

\* room_group_name = f'chat_{self.conversation_id}'
ChatTopic(conv) == <<"chat", conv>>
UserTopic(u) == <<"user", u>>
PresenceTopic == <<"presence", "">>

\* The frame a consumer's group handler (chat_message, typing_status,
\* read_receipt, notification, user_online) writes to its socket for a group
\* event.
ToSocket(e) ==
    CASE e.type = "chat_message" ->
            [type |-> "message", message |-> e.message, sender_id |-> e.sender_id,
             message_id |-> e.message_id, timestamp |-> e.timestamp,
             reply_to |-> e.reply_to]
      [] e.type = "typing_status" ->
            [type |-> "typing", user_id |-> e.user_id, is_typing |-> e.is_typing]
      [] e.type = "read_receipt" ->
            [type |-> "read_receipt", user_id |-> e.user_id, message_id |-> e.message_id]
      [] e.type = "notification" ->
            [type |-> "notification", notification_id |-> e.notification_id,
             from_user |-> e.from_user, notification_type |-> e.notification_type,
             data |-> e.data]
      [] OTHER ->
            [type |-> "presence", user_id |-> e.user_id, online |-> e.online,
             last_seen |-> e.last_seen]

\* channel_layer.group_send: every event of `sends` reaches the sockets of the
\* connections that are in its group (grps) and still served (live).
Deliver(grps, live, sends) ==
    [c \in Conns |->
        IF c \notin live THEN <<>>
        ELSE LET idx == SelectSeq([i \in 1..Len(sends) |-> i],
                                  LAMBDA i : <<sends[i].topic, c>> \in grps)
             IN [k \in 1..Len(idx) |-> ToSocket(sends[idx[k]].event)]]

OpenConns == {c \in Conns : conns[c].state = "open"}

\* The channels registered in a group.
GroupMembers(grps, topic) == {c \in Conns : <<topic, c>> \in grps}

\* The open chat connections whose URL named conversation conv.
RoomAudience(conv) ==
    {c \in Conns : /\ conns[c].kind = "chat"
                   /\ conns[c].state = "open"
                   /\ conns[c].conversation_id = conv}

\* Mutant: the handler does not wait for group_send, so a call may overtake
\* the calls still waiting on a channel.
GroupSend_not_awaited(origin, sends) ==
    /\ log' = log \o [i \in 1..Len(sends) |->
                 [origin |-> origin, topic |-> sends[i].topic, event |-> sends[i].event,
                  room |-> conns[origin].conversation_id,
                  audience |-> RoomAudience(conns[origin].conversation_id)]]
    /\ queue' = [c \in Conns |->
                    SelectSeq([i \in 1..Len(sends) |-> Len(log) + i],
                        LAMBDA n : c \in GroupMembers(groups, sends[n - Len(log)].topic))
                    \o queue[c]]
    /\ UNCHANGED inbox

\* channel_layer.group_send as the channel layer carries it: each call of
\* `sends`, made by the handler of connection origin, is put at the end of the
\* queue of every channel registered in its group.  The log keeps the call,
\* the conversation of the calling connection and that conversation's open
\* connections at the time of the call.
GroupSend(origin, sends) ==
    /\ log' = log \o [i \in 1..Len(sends) |->
                 [origin |-> origin, topic |-> sends[i].topic, event |-> sends[i].event,
                  room |-> conns[origin].conversation_id,
                  audience |-> RoomAudience(conns[origin].conversation_id)]]
    /\ queue' = [c \in Conns |->
                    queue[c] \o SelectSeq([i \in 1..Len(sends) |-> Len(log) + i],
                        LAMBDA n : c \in GroupMembers(groups, sends[n - Len(log)].topic))]
    /\ UNCHANGED inbox

\* The consumer takes the events of its channel in the order they were queued.
Dequeue(q) == [n |-> Head(q), rest |-> Tail(q)]

\* Mutant: an event is handed to a connection only after every channel
\* registered before it in the group has taken it.
CanDispatch_in_turn(c) ==
    /\ conns[c].state = "open"
    /\ queue[c] # <<>>
    /\ \A d \in GroupMembers(groups, log[Head(queue[c])].topic) :
           d < c => \A i \in DOMAIN queue[d] : queue[d][i] # Head(queue[c])

\* A consumer runs a group handler when its socket is open and an event waits
\* on its own channel.
CanDispatch(c) ==
    /\ conns[c].state = "open"
    /\ queue[c] # <<>>

\* The consumer of connection c takes one event from its channel and its group
\* handler (chat_message, typing_status, read_receipt) writes the frame to the
\* socket.
Dispatch(c) ==
    /\ CanDispatch(c)
    /\ LET d == Dequeue(queue[c]) IN
       /\ queue' = [queue EXCEPT ![c] = d.rest]
       /\ inbox' = [inbox EXCEPT ![c] =
                        Append(@, [n |-> d.n, frame |-> ToSocket(log[d.n].event)])]
    /\ UNCHANGED <<dbVars, conns, groups, procs, log, response, sent, delivered>>

\* A handler raised: the consumer stops without running disconnect().
Crash(c) ==
    /\ conns' = [conns EXCEPT ![c].state = "crashed"]
    /\ response' = Resp(0, "exception")
    /\ NoBroadcast
    /\ UNCHANGED groups

\* ------------------------------------------------------------- ChatConsumer
\* ChatConsumer.connect: join chat_{conversation_id} of the URL, accept.
ChatConsumer_connect(c, conversation_id) ==
    /\ conns[c].state = "new"
    /\ conns' = [conns EXCEPT ![c] = [kind |-> "chat", state |-> "open",
                     conversation_id |-> conversation_id, user_id |-> NoUser]]
    /\ groups' = groups \cup {<<ChatTopic(conversation_id), c>>}
    /\ response' = Resp(0, "accept")
    /\ NoBroadcast
    /\ UNCHANGED <<dbVars, procs>>

\* ChatConsumer.disconnect: leave the room group.
ChatConsumer_disconnect(c) ==
    /\ conns[c].kind = "chat"
    /\ conns[c].state = "open"
    /\ conns' = [conns EXCEPT ![c].state = "closed"]
    /\ groups' = groups \ {<<ChatTopic(conns[c].conversation_id), c>>}
    /\ response' = Resp(0, "closed")
    /\ NoBroadcast
    /\ UNCHANGED <<dbVars, procs>>

\* message_obj.timestamp.isoformat(): the text form of a timestamp.
isoformat(t) == <<"iso", t>>

\* ChatConsumer.save_message: the row Message.objects.create inserts.
save_message(msgs, sender_id, conversation_id, content, reply_to, now) ==
    Append(msgs,
        NewMessage(Len(msgs) + 1, conversation_id, sender_id, content, reply_to, Null, now))

\* The Notification rows ChatConsumer.receive inserts for a message event.
save_message_notifications(conversation_id, sender_id, msgId) == <<>>

\* ChatConsumer.receive, type "message".
ChatConsumer_receive_message(c, content, sender_id, conversation_id, reply_to) ==
    /\ conns[c].kind = "chat"
    /\ conns[c].state = "open"
    /\ UNCHANGED <<conversations, users, procs>>
    /\ IF \/ sender_id \notin Users
          \/ conversation_id \notin ConvIds
          \/ (reply_to # Null /\ reply_to \notin MsgIds)
       THEN /\ Crash(c)
            /\ UNCHANGED <<messages, notifications, clock>>
       ELSE LET now == clock + 1
                id == Len(messages) + 1
                event == [type |-> "chat_message", message |-> content,
                          sender_id |-> sender_id, message_id |-> id,
                          timestamp |-> isoformat(now), reply_to |-> reply_to]
            IN /\ clock' = now
               /\ messages' = save_message(messages, sender_id, conversation_id,
                                           content, reply_to, now)
               /\ notifications' = notifications \o
                      save_message_notifications(conversation_id, sender_id, id)
               /\ sent' = <<[topic |-> ChatTopic(conns[c].conversation_id),
                             event |-> event]>>
               /\ delivered' = Deliver(groups, OpenConns, sent')
               /\ response' = Resp(0, "ok")
               /\ UNCHANGED <<conns, groups>>

\* Mutant: the typing status is sent to the group of every conversation.
ChatConsumer_receive_typing_every_room(c, user_id, is_typing) ==
    /\ conns[c].kind = "chat"
    /\ conns[c].state = "open"
    /\ sent' = [i \in 1..2 |->
                    [topic |-> ChatTopic(IF i = 1 THEN conns[c].conversation_id ELSE "D"),
                     event |-> [type |-> "typing_status", user_id |-> user_id,
                                is_typing |-> is_typing]]]
    /\ delivered' = Deliver(groups, OpenConns, sent')
    /\ response' = Resp(0, "ok")
    /\ UNCHANGED <<dbVars, conns, groups, procs>>

\* ChatConsumer.receive, type "typing".
ChatConsumer_receive_typing(c, user_id, is_typing) ==
    /\ conns[c].kind = "chat"
    /\ conns[c].state = "open"
    /\ sent' = <<[topic |-> ChatTopic(conns[c].conversation_id),
                  event |-> [type |-> "typing_status", user_id |-> user_id,
                             is_typing |-> is_typing]]>>
    /\ delivered' = Deliver(groups, OpenConns, sent')
    /\ response' = Resp(0, "ok")
    /\ UNCHANGED <<dbVars, conns, groups, procs>>

\* Mutant: the row is saved without the read_by.add(user).
mark_message_read_not_added(msgs, message_id, user_id) == msgs

\* ChatConsumer.mark_message_read run without interruption: read_by.add(user),
\* then save() of the row as it was loaded.
mark_message_read(msgs, message_id, user_id) ==
    [msgs EXCEPT ![message_id].read_by = @ \cup {user_id}]

\* ChatConsumer.receive, type "read_receipt".
ChatConsumer_receive_read_receipt(c, user_id, message_id) ==
    /\ conns[c].kind = "chat"
    /\ conns[c].state = "open"
    /\ UNCHANGED <<conversations, notifications, users, clock, procs>>
    /\ IF message_id \notin MsgIds \/ user_id \notin Users
       THEN /\ Crash(c)
            /\ UNCHANGED messages
       ELSE /\ messages' = mark_message_read(messages, message_id, user_id)
            /\ sent' = <<[topic |-> ChatTopic(conns[c].conversation_id),
                          event |-> [type |-> "read_receipt", user_id |-> user_id,
                                     message_id |-> message_id]]>>
            /\ delivered' = Deliver(groups, OpenConns, sent')
            /\ response' = Resp(0, "ok")
            /\ UNCHANGED <<conns, groups>>

\* Inbound frames that are not a well-formed event: text that is not JSON, an
\* event without a field its branch reads, an event of a type no branch names.
MalformedKinds == {"invalid_json", "missing_field", "unknown_type"}

\* ChatConsumer.receive on such a frame: json.loads raises on invalid JSON,
\* text_data_json[...] raises KeyError on a missing field, and a type that is
\* none of message / typing / read_receipt falls through every branch.
ChatConsumer_receive_malformed(c, kind) ==
    /\ conns[c].kind = "chat"
    /\ conns[c].state = "open"
    /\ UNCHANGED <<dbVars, procs>>
    /\ IF kind = "unknown_type"
       THEN /\ response' = Resp(0, "ok")
            /\ NoBroadcast
            /\ UNCHANGED <<conns, groups>>
       ELSE Crash(c)

\* ------------------------------------- ChatConsumer.receive, await by await
\* A message frame reaches the socket of connection c and waits for the
\* consumer.  seq is its arrival number on that connection.
Arrivals(c) ==
    Len(wsin[c]) + Cardinality({i \in DOMAIN trace :
                                   trace[i].conn = c /\ trace[i].op = "begin"})

ChatConsumer_frame_arrives(c, sender_id, conversation_id) ==
    /\ conns[c].kind = "chat"
    /\ conns[c].state = "open"
    /\ wsin' = [wsin EXCEPT ![c] = Append(@,
           [seq |-> Arrivals(c) + 1, message |-> "hi", sender_id |-> sender_id,
            conversation_id |-> conversation_id, reply_to |-> Null])]
    /\ UNCHANGED <<dbVars, conns, groups, procs, response, sent, delivered,
                   chanVars, calls, running, trace>>

\* Mutant: receive() starts save_message and group_send without awaiting
\* them, so it has returned while they are still to run.
AwaitsPending_detached(c) == FALSE

\* receive() of connection c has not returned: it awaits save_message and
\* then group_send.
AwaitsPending(c) == running[c] # <<>>

\* The consumer takes the next frame of its socket once the receive() call
\* before it has returned.
CanReceive(c) ==
    /\ conns[c].kind = "chat"
    /\ conns[c].state = "open"
    /\ wsin[c] # <<>>
    /\ ~AwaitsPending(c)

\* receive(): json.loads and the reads of the event's fields.
ChatConsumer_receive_begin(c) ==
    /\ CanReceive(c)
    /\ wsin' = [wsin EXCEPT ![c] = Tail(@)]
    /\ running' = [running EXCEPT ![c] =
           Append(@, [frame |-> Head(wsin[c]), pc |-> "save", message_id |-> Null,
                      timestamp |-> NullTime])]
    /\ trace' = Append(trace, [conn |-> c, frame |-> Head(wsin[c]).seq, op |-> "begin"])
    /\ UNCHANGED <<dbVars, conns, groups, procs, response, sent, delivered,
                   chanVars, calls>>

Without(seq, i) == [k \in 1..(Len(seq) - 1) |-> IF k < i THEN seq[k] ELSE seq[k + 1]]

\* receive(): `message_obj = await self.save_message(...)` of the i-th call in
\* flight.  A sender or conversation id that names no row raises and ends the
\* consumer.
ChatConsumer_receive_save(c, i) ==
    /\ conns[c].state = "open"
    /\ i \in DOMAIN running[c]
    /\ running[c][i].pc = "save"
    /\ UNCHANGED <<conversations, notifications, users, procs, chanVars, calls, wsin>>
    /\ LET f == running[c][i].frame IN
       IF f.sender_id \notin Users \/ f.conversation_id \notin ConvIds
       THEN /\ Crash(c)
            /\ running' = [running EXCEPT ![c] = <<>>]
            /\ trace' = Append(trace, [conn |-> c, frame |-> f.seq, op |-> "fail"])
            /\ UNCHANGED <<messages, clock>>
       ELSE LET now == clock + 1 IN
            /\ clock' = now
            /\ messages' = save_message(messages, f.sender_id, f.conversation_id,
                                        f.message, f.reply_to, now)
            /\ running' = [running EXCEPT ![c][i].pc = "send",
                                          ![c][i].message_id = Len(messages) + 1,
                                          ![c][i].timestamp = now]
            /\ trace' = Append(trace, [conn |-> c, frame |-> f.seq, op |-> "save"])
            /\ UNCHANGED <<conns, groups, response, sent, delivered>>

\* Mutant: the event names the id the next insert will get, not the id of
\* the row save_message returned.
ChatMessageEvent_next_id(h) ==
    [type |-> "chat_message", message |-> h.frame.message,
     sender_id |-> h.frame.sender_id, message_id |-> Len(messages) + 1,
     timestamp |-> isoformat(h.timestamp), reply_to |-> h.frame.reply_to]

\* The event receive() hands to group_send for the row save_message returned.
ChatMessageEvent(h) ==
    [type |-> "chat_message", message |-> h.frame.message,
     sender_id |-> h.frame.sender_id, message_id |-> h.message_id,
     timestamp |-> isoformat(h.timestamp), reply_to |-> h.frame.reply_to]

\* receive(): `await self.channel_layer.group_send(self.room_group_name, ...)`
\* of the i-th call in flight, after which the call returns.
ChatConsumer_receive_send(c, i) ==
    /\ conns[c].state = "open"
    /\ i \in DOMAIN running[c]
    /\ running[c][i].pc = "send"
    /\ sent' = <<[topic |-> ChatTopic(conns[c].conversation_id),
                  event |-> ChatMessageEvent(running[c][i])]>>
    /\ delivered' = Deliver(groups, OpenConns, sent')
    /\ response' = Resp(0, "ok")
    /\ running' = [running EXCEPT ![c] = Without(@, i)]
    /\ trace' = Append(trace, [conn |-> c, frame |-> running[c][i].frame.seq, op |-> "send"])
    /\ UNCHANGED <<dbVars, conns, groups, procs, chanVars, calls, wsin>>

\* --------------------------------------------------------- PresenceConsumer
\* PresenceConsumer.set_user_online
set_user_online(us, user_id, now) ==
    [us EXCEPT ![user_id] = [is_online |-> TRUE, last_seen |-> now]]

\* PresenceConsumer.set_user_offline
set_user_offline(us, user_id, now) ==
    [us EXCEPT ![user_id] = [is_online |-> FALSE, last_seen |-> now]]

\* The open presence connections of a user.
PresenceConnsOf(cs, u) ==
    {c \in Conns : cs[c].kind = "presence" /\ cs[c].state = "open" /\ cs[c].user_id = u}

\* Mutant: the offline event is sent to the user's own group as well.
DisconnectBroadcast_both_groups(c, now) ==
    <<[topic |-> PresenceTopic,
       event |-> [type |-> "user_online", user_id |-> conns[c].user_id,
                  online |-> FALSE, last_seen |-> now]],
      [topic |-> UserTopic(conns[c].user_id),
       event |-> [type |-> "user_online", user_id |-> conns[c].user_id,
                  online |-> FALSE, last_seen |-> now]]>>

\* The group_send calls PresenceConsumer.disconnect makes for connection c.
DisconnectBroadcast(c, now) ==
    <<[topic |-> PresenceTopic,
       event |-> [type |-> "user_online", user_id |-> conns[c].user_id,
                  online |-> FALSE, last_seen |-> now]]>>

\* PresenceConsumer.connect: join user_{id} and presence, accept, mark the
\* user online, broadcast it.  set_user_online raises for an id without a row.
PresenceConsumer_connect(c, user_id) ==
    /\ conns[c].state = "new"
    /\ groups' = groups \cup {<<UserTopic(user_id), c>>, <<PresenceTopic, c>>}
    /\ UNCHANGED <<conversations, messages, notifications, clock, procs>>
    /\ IF user_id \notin Users
       THEN /\ conns' = [conns EXCEPT ![c] = [kind |-> "presence", state |-> "crashed",
                            conversation_id |-> ConvNoSuch, user_id |-> user_id]]
            /\ response' = Resp(0, "exception")
            /\ NoBroadcast
            /\ UNCHANGED users
       ELSE /\ conns' = [conns EXCEPT ![c] = [kind |-> "presence", state |-> "open",
                            conversation_id |-> ConvNoSuch, user_id |-> user_id]]
            /\ users' = set_user_online(users, user_id, clock)
            /\ sent' = <<[topic |-> PresenceTopic,
                          event |-> [type |-> "user_online", user_id |-> user_id,
                                     online |-> TRUE, last_seen |-> NullTime]]>>
            /\ delivered' = Deliver(groups', OpenConns \cup {c}, sent')
            /\ response' = Resp(0, "accept")

\* PresenceConsumer.disconnect: mark the user offline, broadcast it, leave
\* both groups.  The closing socket itself is no longer written to.
PresenceConsumer_disconnect(c) ==
    /\ conns[c].kind = "presence"
    /\ conns[c].state = "open"
    /\ users' = set_user_offline(users, conns[c].user_id, clock)
    /\ sent' = DisconnectBroadcast(c, clock)
    /\ delivered' = Deliver(groups, OpenConns \ {c}, sent')
    /\ groups' = groups \ {<<UserTopic(conns[c].user_id), c>>, <<PresenceTopic, c>>}
    /\ conns' = [conns EXCEPT ![c].state = "closed"]
    /\ response' = Resp(0, "closed")
    /\ UNCHANGED <<conversations, messages, notifications, clock, procs>>

\* PresenceConsumer.get_online_users
get_online_users(us) == {u \in Users : us[u].is_online}

\* PresenceConsumer.receive, type "get_online_users".
PresenceConsumer_receive(c) ==
    /\ conns[c].kind = "presence"
    /\ conns[c].state = "open"
    /\ sent' = <<>>
    /\ delivered' = [NoDeliveries EXCEPT
                        ![c] = <<[type |-> "online_users", users |-> get_online_users(users)]>>]
    /\ response' = Resp(0, "ok")
    /\ UNCHANGED <<dbVars, conns, groups, procs>>

\* PresenceConsumer.receive on a frame that is not valid JSON (json.loads
\* raises) or whose type is not get_online_users (nothing happens; no field
\* is required, the type is read with data.get).
PresenceConsumer_receive_malformed(c, kind) ==
    /\ conns[c].kind = "presence"
    /\ conns[c].state = "open"
    /\ UNCHANGED <<dbVars, procs>>
    /\ IF kind = "invalid_json"
       THEN Crash(c)
       ELSE /\ response' = Resp(0, "ok")
            /\ NoBroadcast
            /\ UNCHANGED <<conns, groups>>

\* accounts.LoginView.post with valid credentials.
LoginView_post(u) ==
    /\ users' = [users EXCEPT ![u].is_online = TRUE]
    /\ response' = Resp(200, "")
    /\ NoBroadcast
    /\ UNCHANGED <<conversations, messages, notifications, clock, conns, groups, procs>>

\* accounts.LogoutView.post
LogoutView_post(u) ==
    /\ users' = [users EXCEPT ![u].is_online = FALSE]
    /\ response' = Resp(200, "")
    /\ NoBroadcast
    /\ UNCHANGED <<conversations, messages, notifications, clock, conns, groups, procs>>

\* ------------------------------------------- mark-read calls, interleaved
\* Each user may have one mark-read call on message 1 in flight; every
\* database statement of the call is one step.  path "rest" is
\* MessageViewSet.mark_read -> Message.mark_as_read, path "ws" is
\* ChatConsumer.mark_message_read.
Target == Null + 1

IdleProc == [pc |-> "idle", path |-> "none", inst_is_read |-> FALSE, todo |-> {}]

\* get_object() / Message.objects.get(): load the row into an instance.
MarkReadStart(u, path) ==
    /\ procs[u].pc = "idle"
    /\ Target \in MsgIds
    /\ IF path = "rest" /\ ~VisibleMessage(u, Target)
       THEN procs' = [procs EXCEPT ![u] = [IdleProc EXCEPT !.pc = "done"]]
       ELSE procs' = [procs EXCEPT ![u] =
                [pc |-> IF path = "rest" THEN "rest_check" ELSE "ws_add",
                 path |-> path, inst_is_read |-> messages[Target].is_read,
                 todo |-> {}]]
    /\ UNCHANGED <<dbVars, conns, groups, response, sent, delivered, chanVars, taskVars>>

\* mark_as_read: `if user not in self.read_by.all()`
RestCheck(u) ==
    /\ procs[u].pc = "rest_check"
    /\ procs' = [procs EXCEPT ![u].pc =
                    IF u \in messages[Target].read_by THEN "done" ELSE "rest_add"]
    /\ UNCHANGED <<dbVars, conns, groups, response, sent, delivered, chanVars, taskVars>>

\* mark_as_read: `self.read_by.add(user)`, then the participants query.
RestAdd(u) ==
    /\ procs[u].pc = "rest_add"
    /\ messages' = [messages EXCEPT ![Target].read_by = @ \cup {u}]
    /\ procs' = [procs EXCEPT ![u].pc = "rest_loop",
                              ![u].todo = participants(messages[Target].conversation)
                                              \ {messages[Target].sender}]
    /\ UNCHANGED <<conversations, notifications, users, clock, conns, groups,
                   response, sent, delivered, chanVars, taskVars>>

\* mark_as_read: one `p in self.read_by.all()` of the all(...) generator; the
\* generator stops at the first participant who has not read.
RestLoop(u) ==
    /\ procs[u].pc = "rest_loop"
    /\ IF procs[u].todo = {}
       THEN procs' = [procs EXCEPT ![u].pc = "rest_save"]
       ELSE LET p == Head(InOrder(procs[u].todo)) IN
            IF p \in messages[Target].read_by
            THEN procs' = [procs EXCEPT ![u].todo = @ \ {p}]
            ELSE procs' = [procs EXCEPT ![u].pc = "done", ![u].todo = {}]
    /\ UNCHANGED <<dbVars, conns, groups, response, sent, delivered, chanVars, taskVars>>

\* mark_as_read: `self.is_read = True; self.save()`
RestSave(u) ==
    /\ procs[u].pc = "rest_save"
    /\ messages' = [messages EXCEPT ![Target].is_read = TRUE]
    /\ procs' = [procs EXCEPT ![u].pc = "done", ![u].inst_is_read = TRUE]
    /\ UNCHANGED <<conversations, notifications, users, clock, conns, groups,
                   response, sent, delivered, chanVars, taskVars>>

\* mark_message_read: `message.read_by.add(user)`
WsAdd(u) ==
    /\ procs[u].pc = "ws_add"
    /\ messages' = [messages EXCEPT ![Target].read_by = @ \cup {u}]
    /\ procs' = [procs EXCEPT ![u].pc = "ws_save"]
    /\ UNCHANGED <<conversations, notifications, users, clock, conns, groups,
                   response, sent, delivered, chanVars, taskVars>>

\* The is_read column mark_message_read's `message.save()` writes: the value
\* the instance was loaded with.
WsSavedIsRead(u) == procs[u].inst_is_read

\* mark_message_read: `message.save()`
WsSave(u) ==
    /\ procs[u].pc = "ws_save"
    /\ messages' = [messages EXCEPT ![Target].is_read = WsSavedIsRead(u)]
    /\ procs' = [procs EXCEPT ![u].pc = "done"]
    /\ UNCHANGED <<conversations, notifications, users, clock, conns, groups,
                   response, sent, delivered, chanVars, taskVars>>

\* ---------------------------------------------------- direct conversations
\* The primary keys the Conversation table gives to the rows inserted after
\* the initial ones, in order.
NewConvIds == <<"N1", "N2", "N3", "N4">>

NewConvs == DOMAIN conversations \ ConvIds

\* No start_conversation request of the user is in flight.
IdleCall == [pc |-> "idle", other |-> NoUser, conversation |-> ConvNoSuch]

\* cls.objects.filter(is_group=False, participants=user1).filter(participants=user2)
DirectConversations(convs, user1, user2) ==
    {c \in DOMAIN convs : /\ ~convs[c].is_group
                          /\ user1 \in convs[c].participants
                          /\ user2 \in convs[c].participants}

\* conversations.first() under Meta.ordering = ['-updated_at'].
FirstConversation(convs, S) ==
    CHOOSE c \in S : \A d \in S : convs[c].updated_at >= convs[d].updated_at

\* POST /conversations/start_conversation/ up to the exists() query of
\* get_or_create_direct_conversation(request.user, other_user): the request is
\* answered at once when user_id is absent, names no user, or a direct
\* conversation is found.
ConversationViewSet_start_conversation(u, user_id) ==
    /\ calls[u].pc \in {"idle", "done"}
    /\ NoBroadcast
    /\ UNCHANGED <<dbVars, conns, groups, procs>>
    /\ IF user_id = NoUser
       THEN /\ response' = Resp(400, "User ID is required")
            /\ calls' = [calls EXCEPT ![u] = IdleCall]
       ELSE IF user_id \notin Users
       THEN /\ response' = Resp(404, "User not found")
            /\ calls' = [calls EXCEPT ![u] = IdleCall]
       ELSE LET found == DirectConversations(conversations, u, user_id) IN
            IF found # {}
            THEN /\ response' = Resp(200, "")
                 /\ calls' = [calls EXCEPT ![u] =
                        [pc |-> "done", other |-> user_id,
                         conversation |-> FirstConversation(conversations, found)]]
            ELSE /\ UNCHANGED response
                 /\ calls' = [calls EXCEPT ![u] =
                        [pc |-> "create", other |-> user_id, conversation |-> ConvNoSuch]]

\* get_or_create_direct_conversation: cls.objects.create(is_group=False)
get_or_create_direct_conversation_create(u) ==
    /\ calls[u].pc = "create"
    /\ Cardinality(NewConvs) < MaxNewConvs
    /\ LET id == NewConvIds[Cardinality(NewConvs) + 1] IN
       /\ conversations' = conversations @@
              (id :> [participants |-> {}, is_group |-> FALSE, updated_at |-> clock])
       /\ calls' = [calls EXCEPT ![u].pc = "add", ![u].conversation = id]
    /\ UNCHANGED <<messages, notifications, users, clock, conns, groups, procs,
                   response, sent, delivered>>

\* get_or_create_direct_conversation: conversation.participants.add(user1,
\* user2), and the view's response.
get_or_create_direct_conversation_add(u) ==
    /\ calls[u].pc = "add"
    /\ conversations' = [conversations EXCEPT
           ![calls[u].conversation].participants = {u, calls[u].other}]
    /\ calls' = [calls EXCEPT ![u].pc = "done"]
    /\ response' = Resp(200, "")
    /\ NoBroadcast
    /\ UNCHANGED <<messages, notifications, users, clock, conns, groups, procs>>

\* ------------------------------------------------------------ specification
InitConversations == [c \in ConvIds |->
    [participants |-> InitParticipants[c], is_group |-> (c = "G"), updated_at |-> 0]]

Init ==
    /\ conversations = InitConversations
    /\ messages = <<>>
    /\ notifications = <<>>
    /\ users = [u \in Users |-> [is_online |-> FALSE, last_seen |-> NullTime]]
    /\ clock = 0
    /\ conns = [c \in Conns |->
           [kind |-> "none", state |-> "new", conversation_id |-> ConvNoSuch,
            user_id |-> NoUser]]
    /\ groups = {}
    /\ response = Resp(0, "")
    /\ sent = <<>>
    /\ delivered = NoDeliveries
    /\ procs = [u \in Users |-> IdleProc]
    /\ log = <<>>
    /\ queue = [c \in Conns |-> <<>>]
    /\ inbox = [c \in Conns |-> <<>>]
    /\ calls = [u \in Users |-> IdleCall]
    /\ wsin = [c \in Conns |-> <<>>]
    /\ running = [c \in Conns |-> <<>>]
    /\ trace = <<>>

\* The REST specification sends to the two direct conversations only.
RestConvs == {"C", "D"}
RestContents == {"hi"}

Create ==
    /\ Len(messages) < MaxMessages
    /\ \/ \E u \in Users, c \in RestConvs, t \in RestContents,
             r \in ReplyToInputs, p \in MsgIdInputs :
              MessageViewSet_create(u, c, t, r, p)
       \/ \E u \in Users, c \in {ConvMissing, ConvNoSuch}, t \in RestContents :
              MessageViewSet_create(u, c, t, Null, Null)
    /\ UNCHANGED <<chanVars, taskVars>>

Forward ==
    /\ Len(messages) < MaxMessages
    /\ \E u \in Users, pk \in MsgIdInputs, c \in RestConvs \cup {ConvMissing} :
           MessageViewSet_forward(u, pk, c)
    /\ UNCHANGED <<chanVars, taskVars>>

MarkRead ==
    /\ \E u \in Users, pk \in 1..(Len(messages) + 1) : MessageViewSet_mark_read(u, pk)
    /\ UNCHANGED <<chanVars, taskVars>>

ListMessages ==
    /\ \E u \in Users, c \in ConvIds \cup {ConvNoSuch} : ConversationViewSet_messages(u, c)
    /\ UNCHANGED <<chanVars, taskVars>>

Next ==
    \/ Create
    \/ Forward
    \/ MarkRead
    \/ ListMessages

\* The REST message store.
Spec == Init /\ [][Next]_vars

ChatConns == 1..MaxChatConns
UserIdInputs == Users \cup {GhostUser}

ChatCreate ==
    /\ Len(messages) < MaxChatMessages
    /\ \E u \in Users, c \in ConvIds, t \in Contents :
           MessageViewSet_create(u, c, t, Null, Null)
    /\ UNCHANGED <<chanVars, taskVars>>

ChatConnect ==
    /\ \E c \in ChatConns, conv \in ConvIds : ChatConsumer_connect(c, conv)
    /\ UNCHANGED <<chanVars, taskVars>>

ChatDisconnect ==
    /\ \E c \in ChatConns : ChatConsumer_disconnect(c)
    /\ UNCHANGED <<chanVars, taskVars>>

ChatMessage ==
    /\ Len(messages) < MaxChatMessages
    /\ \E c \in ChatConns, t \in Contents, u \in UserIdInputs,
          conv \in ConvIds \cup {ConvNoSuch}, r \in ReplyToInputs :
           ChatConsumer_receive_message(c, t, u, conv, r)
    /\ UNCHANGED <<chanVars, taskVars>>

ChatTyping ==
    /\ \E c \in ChatConns, u \in Users, b \in BOOLEAN : ChatConsumer_receive_typing(c, u, b)
    /\ UNCHANGED <<chanVars, taskVars>>

ChatReadReceipt ==
    /\ \E c \in ChatConns, u \in UserIdInputs, m \in MsgIdInputs :
           ChatConsumer_receive_read_receipt(c, u, m)
    /\ UNCHANGED <<chanVars, taskVars>>

ChatMalformed ==
    /\ \E c \in ChatConns, k \in MalformedKinds : ChatConsumer_receive_malformed(c, k)
    /\ UNCHANGED <<chanVars, taskVars>>

NextChat ==
    \/ ChatCreate
    \/ MarkRead
    \/ ListMessages
    \/ ChatConnect
    \/ ChatDisconnect
    \/ ChatMessage
    \/ ChatTyping
    \/ ChatReadReceipt
    \/ ChatMalformed

\* The WebSocket chat consumer beside the REST message store.
SpecChat == Init /\ [][NextChat]_vars

PresenceConnect ==
    /\ \E c \in Conns, u \in UserIdInputs : PresenceConsumer_connect(c, u)
    /\ UNCHANGED <<chanVars, taskVars>>

PresenceDisconnect ==
    /\ \E c \in Conns : PresenceConsumer_disconnect(c)
    /\ UNCHANGED <<chanVars, taskVars>>

PresenceReceive ==
    /\ \E c \in Conns : PresenceConsumer_receive(c)
    /\ UNCHANGED <<chanVars, taskVars>>

Login ==
    /\ \E u \in Users : LoginView_post(u)
    /\ UNCHANGED <<chanVars, taskVars>>

Logout ==
    /\ \E u \in Users : LogoutView_post(u)
    /\ UNCHANGED <<chanVars, taskVars>>

PresenceMalformed ==
    /\ \E c \in Conns, k \in MalformedKinds : PresenceConsumer_receive_malformed(c, k)
    /\ UNCHANGED <<chanVars, taskVars>>

NextPresence ==
    \/ PresenceConnect
    \/ PresenceDisconnect
    \/ PresenceReceive
    \/ Login
    \/ Logout
    \/ PresenceMalformed

\* The presence consumer beside login and logout.
SpecPresence == Init /\ [][NextPresence]_vars

\* One message, sent through POST /messages/ by any participant of any
\* conversation, and no mark-read call started yet.
InitMarkRead ==
    /\ \E c \in ConvIds : \E s \in InitParticipants[c] :
          /\ conversations = [InitConversations EXCEPT ![c].updated_at = 1]
          /\ messages = <<NewMessage(1, c, s, "hi", Null, Null, 1)>>
          /\ notifications = CreateNotifications(c, s, 1, Null)
    /\ users = [u \in Users |-> [is_online |-> FALSE, last_seen |-> NullTime]]
    /\ clock = 1
    /\ conns = [c \in Conns |->
           [kind |-> "none", state |-> "new", conversation_id |-> ConvNoSuch,
            user_id |-> NoUser]]
    /\ groups = {}
    /\ response = Resp(201, "")
    /\ sent = <<>>
    /\ delivered = NoDeliveries
    /\ procs = [u \in Users |-> IdleProc]
    /\ log = <<>>
    /\ queue = [c \in Conns |-> <<>>]
    /\ inbox = [c \in Conns |-> <<>>]
    /\ calls = [u \in Users |-> IdleCall]
    /\ wsin = [c \in Conns |-> <<>>]
    /\ running = [c \in Conns |-> <<>>]
    /\ trace = <<>>

NextMarkRead ==
    \/ \E u \in Users, path \in {"rest", "ws"} : MarkReadStart(u, path)
    \/ \E u \in Users : RestCheck(u)
    \/ \E u \in Users : RestAdd(u)
    \/ \E u \in Users : RestLoop(u)
    \/ \E u \in Users : RestSave(u)
    \/ \E u \in Users : WsAdd(u)
    \/ \E u \in Users : WsSave(u)

\* Concurrent mark-read calls on one message, statement by statement.
SpecMarkRead == InitMarkRead /\ [][NextMarkRead]_vars

ThreadCreate ==
    /\ Len(messages) < MaxThreadMessages
    /\ \E u \in Users, c \in ConvInputs, p \in MsgIdInputs :
           MessageViewSet_create(u, c, "hi", Null, p)
    /\ UNCHANGED <<chanVars, taskVars>>

Thread ==
    /\ \E u \in Users, pk \in 1..(Len(messages) + 1) : MessageViewSet_thread(u, pk)
    /\ UNCHANGED <<chanVars, taskVars>>

NextThreads ==
    \/ ThreadCreate
    \/ Thread

\* Message creation alone, to the depth threads need.
SpecThreads == Init /\ [][NextThreads]_vars

ReadConns == {1}

ReadCreate ==
    /\ Len(messages) < MaxReadMessages
    /\ \E u \in Users, c \in ConvIds : MessageViewSet_create(u, c, "hi", Null, Null)
    /\ UNCHANGED <<chanVars, taskVars>>

ReadConnect ==
    /\ \E c \in ReadConns, conv \in {"C"} : ChatConsumer_connect(c, conv)
    /\ UNCHANGED <<chanVars, taskVars>>

ReadReceipt ==
    /\ \E c \in ReadConns, u \in Users, m \in MsgIds :
           ChatConsumer_receive_read_receipt(c, u, m)
    /\ UNCHANGED <<chanVars, taskVars>>

NextRead ==
    \/ ReadCreate
    \/ MarkRead
    \/ ListMessages
    \/ ReadConnect
    \/ ReadReceipt

\* The three read-marking operations on stored messages.
SpecRead == Init /\ [][NextRead]_vars

RoomConvs == {"C", "D"}

RoomConnect ==
    /\ \E c \in ChatConns, conv \in RoomConvs : ChatConsumer_connect(c, conv)
    /\ UNCHANGED <<chanVars, taskVars>>

RoomDisconnect ==
    /\ \E c \in ChatConns : ChatConsumer_disconnect(c)
    /\ UNCHANGED <<chanVars, taskVars>>

RoomMessage ==
    /\ Len(log) < MaxEvents
    /\ \E c \in ChatConns :
           ChatConsumer_receive_message(c, "hi", "A", "C", Null) /\ GroupSend(c, sent')
    /\ UNCHANGED taskVars

RoomBadReceipt ==
    /\ \E c \in ChatConns : ChatConsumer_receive_read_receipt(c, "A", Len(messages) + 1)
    /\ UNCHANGED <<chanVars, taskVars>>

RoomDispatch ==
    /\ \E c \in ChatConns : Dispatch(c)
    /\ UNCHANGED taskVars

NextRoom ==
    \/ RoomConnect
    \/ RoomDisconnect
    \/ RoomMessage
    \/ RoomBadReceipt
    \/ RoomDispatch

\* The chat rooms with the channel layer's queues between group_send and the
\* sockets.
SpecRoom == Init /\ [][NextRoom]_vars

NotifyConnect ==
    /\ \E c \in ChatConns, u \in Users : PresenceConsumer_connect(c, u)
    /\ UNCHANGED <<chanVars, taskVars>>

NotifyDisconnect ==
    /\ \E c \in ChatConns : PresenceConsumer_disconnect(c)
    /\ UNCHANGED <<chanVars, taskVars>>

NotifyCreate ==
    /\ Len(messages) < MaxNotifyMessages
    /\ \E u \in Users, c \in ConvIds, p \in {Null, Target} :
           MessageViewSet_create(u, c, "hi", Null, p)
    /\ UNCHANGED <<chanVars, taskVars>>

NotifyForward ==
    /\ Len(messages) < MaxNotifyMessages
    /\ \E u \in Users, pk \in MsgIds, c \in ConvIds : MessageViewSet_forward(u, pk, c)
    /\ UNCHANGED <<chanVars, taskVars>>

NextNotify ==
    \/ NotifyConnect
    \/ NotifyDisconnect
    \/ NotifyCreate
    \/ NotifyForward

\* The notification fanout of the REST message paths beside the personal
\* channels of the presence consumer.
SpecNotify == Init /\ [][NextNotify]_vars

FanoutCreate ==
    /\ Len(messages) < MaxFanoutMessages
    /\ \E u \in Users, c \in ConvIds, p \in {Null, Target}, F \in SUBSET Users :
           MessageViewSet_create_failing(u, c, "hi", p, F)
    /\ UNCHANGED <<chanVars, taskVars>>

FanoutForward ==
    /\ Len(messages) < MaxFanoutMessages
    /\ \E u \in Users, pk \in MsgIds, c \in ConvIds, F \in SUBSET Users :
           MessageViewSet_forward_failing(u, pk, c, F)
    /\ UNCHANGED <<chanVars, taskVars>>

NextFanout ==
    \/ FanoutCreate
    \/ FanoutForward

\* The notification fanout over a database whose inserts may fail.
SpecFanout == Init /\ [][NextFanout]_vars

StartConversation ==
    /\ \E u \in Users : \E o \in (Users \ {u}) \cup {GhostUser, NoUser} :
           ConversationViewSet_start_conversation(u, o)
    /\ UNCHANGED <<chanVars, wsin, running, trace>>

DirectCreate ==
    /\ \E u \in Users : get_or_create_direct_conversation_create(u)
    /\ UNCHANGED <<chanVars, wsin, running, trace>>

DirectAdd ==
    /\ \E u \in Users : get_or_create_direct_conversation_add(u)
    /\ UNCHANGED <<chanVars, wsin, running, trace>>

NextDirect ==
    \/ StartConversation
    \/ DirectCreate
    \/ DirectAdd

\* Concurrent start_conversation requests, query by query.
SpecDirect == Init /\ [][NextDirect]_vars

UnreadCreate ==
    /\ Len(messages) < MaxUnreadMessages
    /\ \E u \in Users, c \in ConvIds : MessageViewSet_create(u, c, "hi", Null, Null)
    /\ UNCHANGED <<chanVars, taskVars>>

UnreadCount ==
    /\ \E u \in Users : ConversationViewSet_unread_count(u)
    /\ UNCHANGED <<chanVars, taskVars>>

NextUnread ==
    \/ UnreadCreate
    \/ MarkRead
    \/ UnreadCount

\* Unread counts over messages that are sent and marked read.
SpecUnread == Init /\ [][NextUnread]_vars

InboundConns == {1, 2}

InboundConnect ==
    /\ \E c \in InboundConns : ChatConsumer_connect(c, "C")
    /\ UNCHANGED <<chanVars, taskVars>>

InboundFrame ==
    \E c \in InboundConns, u \in {"A", GhostUser} :
        /\ Arrivals(c) < MaxFrames
        /\ ChatConsumer_frame_arrives(c, u, "C")

InboundBegin ==
    \E c \in InboundConns : ChatConsumer_receive_begin(c)

InboundSave ==
    \E c \in InboundConns : \E i \in DOMAIN running[c] : ChatConsumer_receive_save(c, i)

InboundSend ==
    \E c \in InboundConns : \E i \in DOMAIN running[c] : ChatConsumer_receive_send(c, i)

NextInbound ==
    \/ InboundConnect
    \/ InboundFrame
    \/ InboundBegin
    \/ InboundSave
    \/ InboundSend

\* Message frames on the chat sockets, each receive() call await by await.
SpecInbound == Init /\ [][NextInbound]_vars

AttachCreate ==
    /\ Len(messages) < MaxAttachMessages
    /\ \E u \in Users, c \in ConvIds, f \in Files \cup {NoFile}, ok \in BOOLEAN :
           MessageViewSet_create_with_attachment(u, c, "hi", f, ok)
    /\ UNCHANGED <<chanVars, taskVars>>

NextAttach ==
    \/ AttachCreate

\* Message creation with uploaded files.
SpecAttach == Init /\ [][NextAttach]_vars

ReplyConvs == {"C", "D"}

ReplyCreate ==
    /\ Len(messages) < MaxReplyMessages
    /\ \E u \in Users, c \in ReplyConvs, p \in MsgIdInputs :
           MessageViewSet_create(u, c, "hi", Null, p)
    /\ UNCHANGED <<chanVars, taskVars>>

ReplyCreateView ==
    /\ \E u \in Users, c \in ReplyConvs \cup {ConvNoSuch}, p \in MsgIdInputs :
           MessageCreateView_post(u, c, p)
    /\ UNCHANGED <<chanVars, taskVars>>

NextReply ==
    \/ ReplyCreate
    \/ ReplyCreateView

\* Message creation through both create views.
SpecReply == Init /\ [][NextReply]_vars

\* =================================================================== claims
\* A forward that answered 201.
IsForwardOk(u, pk, t) ==
    /\ response' = Resp(201, "")
    /\ MessageViewSet_forward(u, pk, t)

\* The notifications a step added.
AddedNotifications ==
    SubSeq(notifications', Len(notifications) + 1, Len(notifications'))

\* The participants of m's conversation other than m's sender.
Others(m) == participants(m.conversation) \ {m.sender}

\* C1: in every reachable state each message m has
\* is_read(m) = (read_by(m) contains every participant of m's conversation
\* other than m's sender).
C1_IsReadIffReadByAll ==
    \A id \in MsgIds :
        messages[id].is_read = (Others(messages[id]) \subseteq messages[id].read_by)

\* C2: presence is reference counted.  A presence disconnect that leaves the
\* user with another open presence connection keeps the user online and
\* broadcasts no offline event; a disconnect of the last open connection marks
\* the user offline with last_seen set.
C2_PresenceRefCounted ==
    [][\A c \in Conns :
          PresenceConsumer_disconnect(c) =>
              LET u == conns[c].user_id IN
              IF PresenceConnsOf(conns', u) # {}
              THEN /\ users'[u].is_online
                   /\ \A i \in DOMAIN sent' :
                         ~(sent'[i].event.user_id = u /\ ~sent'[i].event.online)
              ELSE /\ ~users'[u].is_online
                   /\ users'[u].last_seen # NullTime]_vars

\* The users whose mark-read call on the target message has run to its end.
Callers == {u \in Users : procs[u].pc = "done" /\ procs[u].path # "none"}

Quiescent == \A u \in Users : procs[u].pc \in {"idle", "done"}

\* C3: once the concurrent mark-read calls of N distinct participants are all
\* over, read_by contains all N callers, and is_read is true if the callers
\* cover every participant other than the sender.
C3_ConcurrentMarkReadConverges ==
    (Quiescent /\ Target \in MsgIds) =>
        /\ Callers \subseteq messages[Target].read_by
        /\ (Others(messages[Target]) \subseteq Callers) => messages[Target].is_read

\* The notifications that name message id and recipient p.
NotificationsFor(id, p) ==
    {i \in DOMAIN notifications :
        notifications[i].related_message = id /\ notifications[i].recipient = p}

\* C4: every stored message (plain, thread reply or forward) of actor a in a
\* conversation with participants P has exactly one notification for each
\* participant in P other than a, |P| - 1 in all, and none for a.
C4_FanoutOnePerOtherParticipant ==
    \A id \in MsgIds :
        LET m == messages[id]
            P == participants(m.conversation)
        IN /\ \A p \in P \ {m.sender} : Cardinality(NotificationsFor(id, p)) = 1
           /\ NotificationsFor(id, m.sender) = {}
           /\ Cardinality({i \in DOMAIN notifications :
                               notifications[i].related_message = id})
                  = Cardinality(P \ {m.sender})

\* C5: when A sends a message over a live connection of conversation C
\* ({A, B}), every open connection on chat_C receives a message event and
\* exactly one message-type notification for B is created; when B then marks
\* a message of A in C read, its is_read is true.
C5_LiveSendScenario ==
    [][/\ \A c \in ChatConns, t \in Contents, r \in ReplyToInputs :
            (/\ ChatConsumer_receive_message(c, t, "A", "C", r)
             /\ conns[c].conversation_id = "C"
             /\ response' = Resp(0, "ok")) =>
                LET id == Len(messages') IN
                /\ \A c2 \in OpenConns :
                       <<ChatTopic("C"), c2>> \in groups =>
                           \E k \in DOMAIN delivered'[c2] :
                               /\ delivered'[c2][k].type = "message"
                               /\ delivered'[c2][k].message_id = id
                /\ Cardinality({i \in DOMAIN notifications' :
                                   /\ notifications'[i].recipient = "B"
                                   /\ notifications'[i].notification_type = "message"
                                   /\ notifications'[i].related_message = id}) = 1
       /\ \A pk \in MsgIds :
            (/\ MessageViewSet_mark_read("B", pk)
             /\ messages[pk].sender = "A"
             /\ messages[pk].conversation = "C") => messages'[pk].is_read]_vars

\* C6: a connection that has ended, by disconnect or by a handler that
\* raised, is registered under no topic.
C6_NoRegistrationAfterEnd ==
    \A c \in Conns :
        conns[c].state \in {"closed", "crashed"} =>
            \A t \in Topics : <<t, c>> \notin groups

\* C7: thread depth is at most one: the parent_message of a stored message
\* has no parent_message itself.
C7_ThreadDepthOne ==
    \A id \in MsgIds :
        messages[id].parent_message # Null =>
            messages[messages[id].parent_message].parent_message = Null

\* C8: a successful forward(m, u, c) leaves every stored message, the origin
\* with its read_by and is_read included, as it was, and adds exactly one
\* message, in c, with forwarded_from = m, forwarded_by = u, is_forwarded
\* true, and parent_message and reply_to unset.
C8_ForwardFrame ==
    [][response' = Resp(201, "") =>
       \A u \in Users, pk \in MsgIdInputs, t \in ConvInputs :
          IsForwardOk(u, pk, t) =>
              /\ Len(messages') = Len(messages) + 1
              /\ SubSeq(messages', 1, Len(messages)) = messages
              /\ LET new == messages'[Len(messages')] IN
                 /\ new.conversation = t
                 /\ new.forwarded_from = pk
                 /\ new.forwarded_by = u
                 /\ new.is_forwarded
                 /\ new.parent_message = Null
                 /\ new.reply_to = Null]_vars

\* A forward has just copied a thread reply that quotes a message and has
\* been read.
C8_Witness ==
    /\ response = Resp(201, "")
    /\ messages # <<>>
    /\ LET new == messages[Len(messages)] IN
       /\ new.is_forwarded
       /\ messages[new.forwarded_from].parent_message # Null
       /\ messages[new.forwarded_from].reply_to # Null
       /\ messages[new.forwarded_from].read_by # {}
       /\ messages[new.forwarded_from].is_read

\* A forward by a user who is not a participant of the existing target.
IsForwardByOutsider(u, pk, t) ==
    /\ t \in ConvIds
    /\ u \notin participants(t)
    /\ MessageViewSet_forward(u, pk, t)

C10_ForwardNotifiesOthersOnce ==
    [][response' = Resp(201, "") =>
       \A u \in Users, pk \in MsgIdInputs, t \in ConvInputs :
          IsForwardOk(u, pk, t) =>
              LET added == AddedNotifications
                  id == Len(messages')
              IN /\ notifications' = notifications \o added
                 /\ \A p \in Users :
                       Cardinality({i \in DOMAIN added : added[i].recipient = p})
                           = IF p \in participants(t) \ {u} THEN 1 ELSE 0
                 /\ \A i \in DOMAIN added :
                       /\ added[i].notification_type = "forwarded_message"
                       /\ added[i].sender = u
                       /\ added[i].related_message = id
                       /\ added[i].data.message_id = id
                       /\ added[i].data.original_message_id = pk]_vars

\* B has just forwarded a message of A into D, and the one notification of it
\* is E's.
C10_Witness ==
    /\ response = Resp(201, "")
    /\ messages # <<>>
    /\ LET id == Len(messages)
           new == messages[id]
       IN /\ new.is_forwarded
          /\ new.sender = "B"
          /\ new.conversation = "D"
          /\ messages[new.forwarded_from].sender = "A"
          /\ notifications # <<>>
          /\ notifications[Len(notifications)].recipient = "E"
          /\ notifications[Len(notifications)].related_message = id
          /\ notifications[Len(notifications)].data.original_message_id = new.forwarded_from

\* A create request that names a conversation and carries a reference to a
\* conversation or message that does not exist.
DanglingRef(c, r, p) ==
    /\ c # ConvMissing
    /\ \/ c \notin ConvIds
       \/ (r # Null /\ r \notin MsgIds)
       \/ (p # Null /\ p \notin MsgIds)

\* C11: a create whose conversation, reply_to or parent_message id names
\* nothing answers NotFound (404), stores no message, creates no notification
\* and broadcasts nothing.
C11_CreateNotFoundOnDanglingRef ==
    [][\A u \in Users, c \in ConvInputs, t \in Contents,
          r \in ReplyToInputs, p \in MsgIdInputs :
          (DanglingRef(c, r, p) /\ MessageViewSet_create(u, c, t, r, p)) =>
              /\ response'.status = 404
              /\ UNCHANGED <<messages, notifications>>
              /\ sent' = <<>>]_vars

\* C12: marking read is idempotent.  From every reachable state, for every
\* message and user, marking twice leaves the same rows (read_by and is_read
\* included) as marking once, through Message.mark_as_read and through
\* ChatConsumer.mark_message_read.
C12_MarkReadIdempotent ==
    \A id \in MsgIds, u \in Users :
        LET once == mark_as_read(messages, id, u)
            wsOnce == mark_message_read(messages, id, u)
        IN /\ mark_as_read(once, id, u) = once
           /\ mark_message_read(wsOnce, id, u) = wsOnce

\* A message that some participants have marked and that the next mark of a
\* participant who has not yet read it turns to is_read.
C12_Witness ==
    \E id \in MsgIds, u \in Users :
        /\ messages[id].read_by # {}
        /\ u \notin messages[id].read_by
        /\ ~messages[id].is_read
        /\ mark_as_read(messages, id, u)[id].is_read

\* The root of the thread a message belongs to.
ThreadRoot(msgs, id) ==
    IF msgs[id].parent_message # Null THEN msgs[id].parent_message ELSE id

\* The root and its direct children by ascending timestamp.
ExpectedThread(msgs, root) ==
    OrderByTimestamp(msgs, {i \in 1..Len(msgs) :
                               i = root \/ msgs[i].parent_message = root})

\* C13: the thread of a message is its root plus the root's direct children
\* in ascending timestamp order, the same whether the message asked about is
\* the root or one of the children, from the thread endpoint and from
\* Message.get_thread_messages.
C13_ThreadSameFromRootOrChild ==
    [][\A u \in Users, pk \in MsgIds :
          (VisibleMessage(u, pk) /\ MessageViewSet_thread(u, pk)) =>
              /\ response'.data = ExpectedThread(messages, ThreadRoot(messages, pk))
              /\ get_thread_messages(messages, pk)
                     = ExpectedThread(messages, ThreadRoot(messages, pk))]_vars

\* The group_send calls of the step that announce user u as online (on = TRUE)
\* or offline (on = FALSE).
PresenceEventsFor(u, on) ==
    {i \in DOMAIN sent' : /\ sent'[i].event.type = "user_online"
                          /\ sent'[i].event.user_id = u
                          /\ sent'[i].event.online = on}

\* C14: a presence connect of a user who already has an open presence
\* connection broadcasts no online event; the online event belongs to the
\* connect that takes the user's open-connection count from 0 to 1.
C14_OnlineEventOnlyOnFirstConnection ==
    [][\A c \in Conns, u \in Users :
          (PresenceConsumer_connect(c, u) /\ PresenceConnsOf(conns, u) # {}) =>
              PresenceEventsFor(u, TRUE) = {}]_vars

\* C15: a presence disconnect that leaves the user with an open presence
\* connection broadcasts no offline event and leaves the user's is_online and
\* last_seen alone; those belong to the disconnect that brings the count to 0.
C15_OfflineOnlyOnLastDisconnect ==
    [][\A c \in Conns :
          (PresenceConsumer_disconnect(c)
              /\ PresenceConnsOf(conns', conns[c].user_id) # {}) =>
                  /\ PresenceEventsFor(conns[c].user_id, FALSE) = {}
                  /\ users'[conns[c].user_id] = users[conns[c].user_id]]_vars

\* C16: in every reachable state a user is reported online (is_online, and
\* listed by get_online_users) exactly if the user has an open presence
\* connection.
C16_OnlineIffOpenConnection ==
    /\ \A u \in Users : users[u].is_online <=> (PresenceConnsOf(conns, u) # {})
    /\ get_online_users(users) = {u \in Users : PresenceConnsOf(conns, u) # {}}

\* The broadcasts (by index in the log) waiting on a connection's channel, and
\* those already written to its socket.
Pending(c) == {queue[c][i] : i \in DOMAIN queue[c]}
Received(c) == {inbox[c][i].n : i \in DOMAIN inbox[c]}

\* C17: a broadcast reaches every connection that was open on the
\* conversation when it was made (it waits on, or has been written to, each
\* such connection that is still open), each at most once, and no other
\* connection: a connection that joins later, or that is in another room,
\* neither receives it nor has it waiting.
C17_BroadcastReachesExactlyTheJoined ==
    \A n \in DOMAIN log, c \in Conns :
        /\ (c \in log[n].audience /\ conns[c].state = "open") =>
               n \in Pending(c) \cup Received(c)
        /\ n \in Received(c) => c \in log[n].audience
        /\ (n \in Pending(c) /\ conns[c].state = "open") => c \in log[n].audience
        /\ Cardinality({i \in DOMAIN inbox[c] : inbox[c][i].n = n}) <= 1

\* A broadcast has been written to the socket of one connection of the room
\* while another connection, which joined the same room after the call, is
\* open and has nothing of it.
C17_Witness ==
    \E n \in DOMAIN log, c1 \in Conns, c2 \in Conns :
        /\ n \in Received(c1)
        /\ c2 # c1
        /\ conns[c2].state = "open"
        /\ conns[c2].conversation_id = log[n].room
        /\ c2 \notin log[n].audience
        /\ n \notin Pending(c2) \cup Received(c2)

C19_DeliveredInBroadcastOrder ==
    \A c \in Conns : \A i \in DOMAIN inbox[c], j \in DOMAIN inbox[c] :
        (/\ i < j
         /\ log[inbox[c][i].n].origin = log[inbox[c][j].n].origin
         /\ log[inbox[c][i].n].topic = log[inbox[c][j].n].topic) =>
            inbox[c][i].n < inbox[c][j].n

\* A subscriber other than the sender has received two broadcasts that one
\* connection made to the same topic, after both had been waiting on its
\* channel.
C19_Witness ==
    \E c \in Conns :
        /\ Len(inbox[c]) >= 2
        /\ log[inbox[c][1].n].origin = log[inbox[c][2].n].origin
        /\ log[inbox[c][1].n].origin # c
        /\ log[inbox[c][1].n].topic = log[inbox[c][2].n].topic
        /\ inbox[c][1].frame # inbox[c][2].frame

\* The step is ChatConsumer.receive of connection c on a malformed frame: not
\* JSON, a field missing, an unknown type, or an id that names nothing.
IsMalformedChatFrame(c) ==
    \/ \E k \in MalformedKinds : ChatConsumer_receive_malformed(c, k)
    \/ \E u \in UserIdInputs, m \in MsgIdInputs :
          /\ (u \notin Users \/ m \notin MsgIds)
          /\ ChatConsumer_receive_read_receipt(c, u, m)
    \/ \E t \in Contents, u \in UserIdInputs, conv \in ConvIds \cup {ConvNoSuch},
          r \in ReplyToInputs :
          /\ (u \notin Users \/ conv \notin ConvIds \/ (r # Null /\ r \notin MsgIds))
          /\ ChatConsumer_receive_message(c, t, u, conv, r)

\* C20: a malformed inbound frame does not end the connection: it stays open
\* and joined to its topics, nothing is broadcast, and at most one (error)
\* frame is written, to the originating socket only.
C20_MalformedFrameKeepsConnection ==
    [][\A c \in ChatConns :
          IsMalformedChatFrame(c) =>
              /\ conns'[c].state = "open"
              /\ groups' = groups
              /\ sent' = <<>>
              /\ Len(delivered'[c]) <= 1
              /\ \A d \in Conns \ {c} : delivered'[d] = <<>>]_vars

\* The open connections registered under the personal topic of user p.
PersonalConns(p) == {c \in OpenConns : <<UserTopic(p), c>> \in groups}

\* The group_send calls of the step that push a notification event to the
\* personal topic of user p.
NotificationSends(p) ==
    {i \in DOMAIN sent' : /\ sent'[i].topic = UserTopic(p)
                          /\ sent'[i].event.type = "notification"}

\* C21: a create or forward that stored a message pushes exactly one live
\* notification event to user_{p} for every recipient p that has an open
\* connection registered there, and none for a recipient without one.
C21_LiveNotificationToConnectedRecipients ==
    [][(/\ response' = Resp(201, "")
        /\ Len(messages') = Len(messages) + 1) =>
           LET m == messages'[Len(messages')] IN
           \A p \in Others(m) :
               Cardinality(NotificationSends(p)) =
                   IF PersonalConns(p) # {} THEN 1 ELSE 0]_vars

\* C22: when the notification insert fails for some recipients of a create or
\* forward, the message that triggered the fanout stays stored and every
\* other recipient still gets its notification.
C22_FanoutSurvivesOneFailure ==
    [][\A F \in SUBSET Users :
          (\/ \E u \in Users, c \in ConvIds, p \in {Null, Target} :
                 MessageViewSet_create_failing(u, c, "hi", p, F)
           \/ \E u \in Users, pk \in MsgIds, c \in ConvIds :
                 MessageViewSet_forward_failing(u, pk, c, F)) =>
              /\ Len(messages') = Len(messages) + 1
              /\ LET m == messages'[Len(messages')] IN
                 \A p \in Others(m) \ F :
                     \E i \in DOMAIN notifications' :
                         /\ notifications'[i].related_message = m.id
                         /\ notifications'[i].recipient = p]_vars

\* The notification type the event that stored message m calls for.
EventType(m) ==
    IF m.is_forwarded THEN "forwarded_message"
    ELSE IF m.parent_message # Null THEN "thread_reply"
    ELSE "message"

\* C23: every notification has the type of the event that stored its message
\* (message, thread_reply when parent_message was set, forwarded_message for a
\* forward), and its payload carries the conversation id, the new message's id
\* and, for a thread reply or a forward, the parent or the original message id.
C23_NotificationTypeAndPayload ==
    \A i \in DOMAIN notifications :
        LET n == notifications[i]
            m == messages[n.related_message]
        IN /\ n.notification_type = EventType(m)
           /\ n.data.conversation_id = m.conversation
           /\ n.data.message_id = m.id
           /\ m.parent_message # Null => n.data.parent_message_id = m.parent_message
           /\ m.is_forwarded => n.data.original_message_id = m.forwarded_from

\* A plain send, a thread reply and a forward have each been notified.
C23_Witness ==
    \A t \in {"message", "thread_reply", "forwarded_message"} :
        \E i \in DOMAIN notifications : notifications[i].notification_type = t

\* C24: no step lowers a conversation's updated_at, and a step that stores a
\* new message raises the updated_at of that message's conversation.
C24_UpdatedAtBumpedByEveryMessage ==
    [][/\ \A c \in ConvIds : conversations'[c].updated_at >= conversations[c].updated_at
       /\ Len(messages') = Len(messages) + 1 =>
              LET c == messages'[Len(messages')].conversation IN
              conversations'[c].updated_at > conversations[c].updated_at]_vars

\* The direct conversations of exactly the pair u1, u2.
DirectOf(u1, u2) ==
    {c \in DOMAIN conversations : /\ ~conversations[c].is_group
                                  /\ conversations[c].participants = {u1, u2}}

\* C25: at most one direct (non-group) conversation exists for any pair of
\* users, whatever start_conversation requests have run or are running.
C25_OneDirectConversationPerPair ==
    \A u1 \in Users, u2 \in Users :
        u1 # u2 => Cardinality(DirectOf(u1, u2)) <= 1

\* The messages of conversation c that user did not send and that are unread.
UnreadOf(c, user) ==
    {id \in MsgIds : /\ messages[id].conversation = c
                     /\ messages[id].sender # user
                     /\ ~messages[id].is_read}

\* C26: the unread count answered for a conversation and a user is the number
\* of messages of that conversation whose sender is not the user and whose
\* is_read is false (a conversation left out of the answer counts zero).
C26_UnreadCountIsCountOfOthersUnread ==
    [][\A u \in Users :
          ConversationViewSet_unread_count(u) =>
              \A c \in ConvIds :
                  u \in participants(c) =>
                      (IF c \in DOMAIN response'.data THEN response'.data[c] ELSE 0)
                          = Cardinality(UnreadOf(c, u))]_vars

\* An unread count was answered that leaves out some message of the
\* conversation (the asker's own, or one already read).
C26_Witness ==
    /\ "data" \in DOMAIN response
    /\ \E c \in DOMAIN response.data :
          /\ response.data[c] >= 1
          /\ Cardinality({id \in MsgIds : messages[id].conversation = c})
                 > response.data[c]

\* What the receive() calls of connection c have done, in order.
TraceOf(c) == SelectSeq(trace, LAMBDA e : e.conn = c)

\* C27: the frames of one connection are processed strictly in arrival order:
\* the j-th receive() call of a connection is for its j-th frame and begins
\* only after the call before it has stored its message and broadcast it; a
\* store or a broadcast belongs to the call that began last.
C27_OneConnectionInArrivalOrder ==
    \A c \in InboundConns :
        LET T == TraceOf(c) IN
        \A j \in DOMAIN T :
            IF T[j].op = "begin"
            THEN /\ T[j].frame = Cardinality({i \in 1..(j - 1) : T[i].op = "begin"}) + 1
                 /\ \A i \in 1..(j - 1) :
                        T[i].op = "begin" =>
                            \E k \in (i + 1)..(j - 1) :
                                T[k].frame = T[i].frame /\ T[k].op = "send"
            ELSE /\ j > 1
                 /\ T[j - 1].frame = T[j].frame
                 /\ T[j - 1].op = (IF T[j].op = "send" THEN "save" ELSE "begin")

\* One connection has processed two frames to the end, and a step of another
\* connection fell between the begin and the broadcast of one of its calls.
C27_Witness ==
    \E c \in InboundConns :
        /\ \E j \in DOMAIN trace :
              trace[j].conn = c /\ trace[j].frame = 2 /\ trace[j].op = "send"
        /\ \E i, j, k \in DOMAIN trace :
              /\ i < j /\ j < k
              /\ trace[i].conn = c /\ trace[i].op = "begin"
              /\ trace[k].conn = c /\ trace[k].op = "send"
              /\ trace[k].frame = trace[i].frame
              /\ trace[j].conn # c

\* C28: a create whose attached image cannot be turned into a thumbnail still
\* succeeds: the message is stored, with its attachment and without a
\* thumbnail.
C28_ThumbnailFailureKeepsMessage ==
    [][\A u \in Users, c \in ConvIds, f \in Files :
          (/\ OwnConversation(u, c)
           /\ MessageViewSet_create_with_attachment(u, c, "hi", f, FALSE)) =>
              /\ response' = Resp(201, "")
              /\ Len(messages') = Len(messages) + 1
              /\ LET m == messages'[Len(messages')] IN
                 /\ m.attachment # NoFile
                 /\ m.attachment[5] = f
                 /\ m.attachment_thumbnail = NoFile]_vars

\* A stored message carries an image without a thumbnail (the generation
\* failed) and another carries an image with one.
C28_Witness ==
    /\ response = Resp(201, "")
    /\ \E i \in MsgIds :
          /\ messages[i].attachment_type = "image"
          /\ messages[i].attachment_thumbnail = NoFile
    /\ \E i \in MsgIds :
          /\ messages[i].attachment_type = "image"
          /\ messages[i].attachment_thumbnail # NoFile

\* The step a receive() call just took, if the step was one.
LastOp == IF trace' # trace THEN trace'[Len(trace')] ELSE [conn |-> Null, frame |-> Null, op |-> "none"]

\* C29: when a receive() call broadcasts, its message is already stored: every
\* chat_message event handed to group_send names the id and carries the
\* timestamp and text of a row stored before that step; a call whose
\* save_message failed broadcasts nothing, then or later.
C29_PersistBeforeBroadcast ==
    [][/\ LastOp.op = "send" =>
              /\ Len(sent') = 1
              /\ \A i \in DOMAIN sent' :
                    LET e == sent'[i].event IN
                    /\ e.type = "chat_message"
                    /\ e.message_id \in MsgIds
                    /\ e.timestamp = isoformat(messages[e.message_id].timestamp)
                    /\ e.message = messages[e.message_id].content
                    /\ e.sender_id = messages[e.message_id].sender
              /\ \A j \in DOMAIN trace :
                    (trace[j].conn = LastOp.conn /\ trace[j].frame = LastOp.frame) =>
                        trace[j].op # "fail"
       /\ LastOp.op = "fail" => (sent' = <<>> /\ messages' = messages)
       /\ LastOp.op \in {"begin", "save"} => sent' = sent]_vars

\* One call has stored and broadcast its message and another call's
\* save_message has failed.
C29_Witness ==
    /\ \E j \in DOMAIN trace : trace[j].op = "send"
    /\ \E j \in DOMAIN trace : trace[j].op = "fail"
    /\ Len(messages) >= 1

\* C30: a chat_message event is broadcast only on the chat topic of the
\* conversation its message is stored in.
C30_BroadcastOnOwnConversationTopic ==
    [][\A c \in ChatConns, t \in Contents, u \in Users, conv \in ConvIds,
         r \in ReplyToInputs :
          (/\ ChatConsumer_receive_message(c, t, u, conv, r)
           /\ response' = Resp(0, "ok")) =>
              \A i \in DOMAIN sent' :
                  sent'[i].topic =
                      ChatTopic(messages'[sent'[i].event.message_id].conversation)]_vars

\* How many of the frames the step wrote to the socket of d carry event e.
FramesOf(d, e) ==
    Cardinality({k \in DOMAIN delivered'[d] : delivered'[d][k] = ToSocket(e)})

C32_SenderIsParticipant ==
    \A id \in MsgIds :
        messages[id].sender \in participants(messages[id].conversation)

\* C33: for every message, read_by holds participants of the message's
\* conversation only.
C33_ReadByWithinParticipants ==
    \A id \in MsgIds :
        messages[id].read_by \subseteq participants(messages[id].conversation)

\* C34: read state is monotone: no step takes a user out of a message's
\* read_by, and no step puts a true is_read back to false.
C34_ReadStateMonotone ==
    [][\A id \in MsgIds :
          /\ messages[id].read_by \subseteq messages'[id].read_by
          /\ messages[id].is_read => messages'[id].is_read]_vars

\* A create request through either view, by u for conversation c with parent p.
IsCreateRequest(u, c, p) ==
    \/ MessageViewSet_create(u, c, "hi", Null, p)
    \/ MessageCreateView_post(u, c, p)

TypingConns == {1, 2}

TypingConnect ==
    /\ \E c \in TypingConns, conv \in {"C", "D"} : ChatConsumer_connect(c, conv)
    /\ UNCHANGED <<chanVars, taskVars>>

TypingEvent ==
    /\ \E c \in TypingConns, u \in Users, b \in BOOLEAN :
           ChatConsumer_receive_typing(c, u, b)
    /\ UNCHANGED <<chanVars, taskVars>>

NextTyping ==
    \/ ReadCreate
    \/ TypingConnect
    \/ ChatDisconnect
    \/ TypingEvent

\* Typing events of chat connections beside a stored message.
SpecTyping == Init /\ [][NextTyping]_vars

\* C36: a typing event received on an open chat connection changes no stored
\* state (conversations, messages with their read state, notifications, users'
\* presence fields) and sends exactly one typing_status event, to the group of
\* the conversation of the receiving connection.
C36_TypingOnlyBroadcasts ==
    [][\A c \in TypingConns, u \in Users, b \in BOOLEAN :
           ChatConsumer_receive_typing(c, u, b) =>
               /\ dbVars' = dbVars
               /\ groups' = groups
               /\ Len(sent') = 1
               /\ sent'[1].topic = ChatTopic(conns[c].conversation_id)
               /\ sent'[1].event = [type |-> "typing_status", user_id |-> u,
                                    is_typing |-> b]]_vars

\* A typing event was sent while a message is stored and a connection of the
\* conversation got its frame.
C36_Witness ==
    /\ messages # <<>>
    /\ Len(sent) = 1
    /\ sent[1].event.type = "typing_status"
    /\ \E c \in TypingConns : Len(delivered[c]) = 1 /\ delivered[c][1].type = "typing"

\* ------------------------------------------------------------ read receipts
ReceiptEvent ==
    /\ \E c \in TypingConns, u \in UserIdInputs, m \in MsgIdInputs :
           ChatConsumer_receive_read_receipt(c, u, m)
    /\ UNCHANGED <<chanVars, taskVars>>

ReceiptCreate ==
    /\ Len(messages) < MaxReadMessages
    /\ \E u \in {"A", "B"} : MessageViewSet_create(u, "C", "hi", Null, Null)
    /\ UNCHANGED <<chanVars, taskVars>>

NextReceipt ==
    \/ ReceiptCreate
    \/ TypingConnect
    \/ ChatDisconnect
    \/ ReceiptEvent

\* Read receipts of chat connections, with ids that name a row and ids that
\* name none.
SpecReceipt == Init /\ [][NextReceipt]_vars

\* C37: when a read_receipt event is handled, the named user is in the named
\* message's read_by by the time the read_receipt event is sent to the group;
\* if the message or the user does not exist, no read_receipt is sent and no
\* stored state changes.
C37_ReadByBeforeReceipt ==
    [][\A c \in TypingConns, u \in UserIdInputs, m \in MsgIdInputs :
           ChatConsumer_receive_read_receipt(c, u, m) =>
               IF m \in MsgIds /\ u \in Users
               THEN /\ u \in messages'[m].read_by
                    /\ sent' = <<[topic |-> ChatTopic(conns[c].conversation_id),
                                  event |-> [type |-> "read_receipt", user_id |-> u,
                                             message_id |-> m]]>>
               ELSE /\ dbVars' = dbVars
                    /\ \A i \in 1..Len(sent') : sent'[i].event.type # "read_receipt"]_vars

\* One connection has stopped on a read_receipt that names nothing, and
\* another has just sent a read_receipt for a user now in read_by.
C37_Witness ==
    /\ \E c \in TypingConns : conns[c].state = "crashed"
    /\ Len(sent) = 1
    /\ sent[1].event.type = "read_receipt"
    /\ \E m \in MsgIds : sent[1].event.message_id = m
                         /\ sent[1].event.user_id \in messages[m].read_by

\* ---------------------------------------------------- forwarding read rows
NextForward ==
    \/ ReceiptCreate
    \/ MarkRead
    \/ ListMessages
    \/ Forward

\* Forwarding beside the operations that mark the origin read.
SpecForward == Init /\ [][NextForward]_vars

\* C38: the message a forward stores has the forwarding user as its sender and
\* as forwarded_by, has the content of the origin, and starts unread: is_read
\* is false and read_by is empty, whatever the read state of the origin.
C38_ForwardedStartsUnread ==
    [][Len(messages') > Len(messages) /\ messages'[Len(messages')].is_forwarded =>
           LET copy == messages'[Len(messages')] IN
           /\ copy.sender = copy.forwarded_by
           /\ copy.forwarded_from \in MsgIds
           /\ copy.content = messages[copy.forwarded_from].content
           /\ copy.is_read = FALSE
           /\ copy.read_by = {}
           /\ \A u \in Users, pk \in MsgIds, c \in RestConvs :
                  MessageViewSet_forward(u, pk, c) =>
                      copy.sender = u /\ copy.forwarded_from = pk]_vars

\* A forward of a message that is read and has readers has stored its copy.
C38_Witness ==
    /\ response = Resp(201, "")
    /\ messages # <<>>
    /\ LET copy == messages[Len(messages)] IN
       /\ copy.is_forwarded
       /\ messages[copy.forwarded_from].is_read
       /\ messages[copy.forwarded_from].read_by # {}

\* ------------------------------------------------- notification read flags
NotifIds == 1..Len(notifications)

\* NotificationViewSet.get_queryset / get_object: the notification must be
\* addressed to the requesting user.
OwnNotification(u, pk) ==
    /\ pk \in NotifIds
    /\ notifications[pk].recipient = u

\* Notification.mark_as_read
Notification_mark_as_read(n) ==
    IF ~n.is_read THEN [n EXCEPT !.is_read = TRUE] ELSE n

\* POST /notifications/mark_all_read/ : NotificationViewSet.mark_all_read
NotificationViewSet_mark_all_read(u) ==
    /\ notifications' = [i \in NotifIds |->
           IF notifications[i].recipient = u /\ ~notifications[i].is_read
           THEN [notifications[i] EXCEPT !.is_read = TRUE]
           ELSE notifications[i]]
    /\ response' = Resp(200, "")
    /\ NoBroadcast
    /\ UNCHANGED <<conversations, messages, users, clock, conns, groups, procs>>

\* POST /notifications/{pk}/mark_read/ : NotificationViewSet.mark_read
NotificationViewSet_mark_read(u, pk) ==
    /\ NoBroadcast
    /\ UNCHANGED <<conversations, messages, users, clock, conns, groups, procs>>
    /\ IF ~OwnNotification(u, pk)
       THEN /\ response' = NotFound
            /\ UNCHANGED notifications
       ELSE /\ notifications' = [notifications EXCEPT
                                    ![pk] = Notification_mark_as_read(@)]
            /\ response' = Resp(200, "")

\* PATCH /notifications/{pk}/ with a body {"is_read": is_read}: the
\* partial_update NotificationViewSet has as a ModelViewSet, through
\* NotificationSerializer, whose read_only_fields do not name is_read.
NotificationViewSet_partial_update(u, pk, is_read) ==
    /\ NoBroadcast
    /\ UNCHANGED <<conversations, messages, users, clock, conns, groups, procs>>
    /\ IF ~OwnNotification(u, pk)
       THEN /\ response' = NotFound
            /\ UNCHANGED notifications
       ELSE /\ notifications' = [notifications EXCEPT ![pk].is_read = is_read]
            /\ response' = Resp(200, "")

NoticeMarkAllRead ==
    /\ \E u \in Users : NotificationViewSet_mark_all_read(u)
    /\ UNCHANGED <<chanVars, taskVars>>

NoticeMarkRead ==
    /\ \E u \in Users, pk \in 1..(Len(notifications) + 1) :
           NotificationViewSet_mark_read(u, pk)
    /\ UNCHANGED <<chanVars, taskVars>>

NoticeUpdate ==
    /\ \E u \in Users, pk \in 1..(Len(notifications) + 1), b \in BOOLEAN :
           NotificationViewSet_partial_update(u, pk, b)
    /\ UNCHANGED <<chanVars, taskVars>>

NextNoticeMarks ==
    \/ NotifyCreate
    \/ NoticeMarkAllRead
    \/ NoticeMarkRead

\* The two marking operations on the notifications of stored messages.
SpecNoticeMarks == Init /\ [][NextNoticeMarks]_vars

NextNotice ==
    \/ NotifyCreate
    \/ NoticeMarkAllRead
    \/ NoticeMarkRead
    \/ NoticeUpdate

\* Every operation of the notification API that writes is_read.
SpecNotice == Init /\ [][NextNotice]_vars

\* C39: mark_all_read and mark_read by a user leave every notification
\* addressed to another recipient as it was, and no step turns the is_read of
\* a notification from true to false.
C39_NotificationReadFrame ==
    [][/\ \A i \in NotifIds :
              notifications[i].is_read => notifications'[i].is_read
       /\ \A u \in Users :
              (\/ NotificationViewSet_mark_all_read(u)
               \/ \E pk \in NotifIds : NotificationViewSet_mark_read(u, pk)) =>
                  \A i \in NotifIds :
                      notifications[i].recipient # u =>
                          notifications'[i] = notifications[i]]_vars
====
